---- MODULE Spec2Model ----
(***************************************************************************)
(* Model of the Spark History Server client:                               *)
(*   - SparkRestClient   (api/spark_client.py): request building, the      *)
(*     address fallback of _get, authentication, session use;              *)
(*   - list_slowest_sql_queries (tools/tools.py): the pagination loop;     *)
(*   - EMRPersistentUIClient (api/emr_persistent_ui_client.py): the        *)
(*     four-step session bootstrap;                                        *)
(*   - the analytics tools of tools/tools.py, each one a function of its   *)
(*     arguments and of the data it fetches.                               *)
(*                                                                         *)
(* Strings are sequences of tokens.  The token "/" is the slash, "1" and   *)
(* "2" are decimal digits, "applications" is that literal word and "x" is  *)
(* any other character.  The regular expressions of the client only tell   *)
(* these classes apart.                                                    *)
(***************************************************************************)
EXTENDS Integers, Sequences, FiniteSets, TLC

VARIABLES
    \* harness of the pure function _modify_url
    mu_pc, mu_url, mu_result,
    \* SparkRestClient and the _get operation in progress
    client, rpc, rurl, rparams, httpLog, respLog, outcome,
    \* list_slowest_sql_queries: arguments, the server's collection, the loop
    pg_pc, pg_args, pg_coll, pg_offset, pg_all, pg_calls, pg_result,
    \* EMRPersistentUIClient: its fields, initialize() in progress, the calls
    \* made by it, the step operation that ran last
    emr, e_pc, e_after, e_calls, e_error, e_last,
    \* an analytics tool of tools/tools.py: which one was called, its
    \* arguments with the data the server holds, and what it returned
    t_tool, t_in, t_out

urlVars  == <<mu_pc, mu_url, mu_result>>
restVars == <<client, rpc, rurl, rparams, httpLog, respLog, outcome>>
pageVars == <<pg_pc, pg_args, pg_coll, pg_offset, pg_all, pg_calls, pg_result>>
emrVars  == <<emr, e_pc, e_after, e_calls, e_error, e_last>>
toolVars == <<t_tool, t_in, t_out>>
vars     == <<urlVars, restVars, pageVars, emrVars, toolVars>>

nonUrlVars  == <<restVars, pageVars, emrVars, toolVars>>
nonRestVars == <<urlVars, pageVars, emrVars, toolVars>>
nonPageVars == <<urlVars, restVars, emrVars, toolVars>>
nonEmrVars  == <<urlVars, restVars, pageVars, toolVars>>
nonToolVars == <<urlVars, restVars, pageVars, emrVars>>

None == "None"

----------------------------------------------------------------------------
(* Bounds *)

MaxUrlLen == 7

MaxItems == 4

MaxPageSize == 3

MaxDuration == 1

MaxTopN == 2

MaxJobs == 3

MaxExecutors == 2

MaxMetric == 2

MaxStages == 2

MaxCompared == 1

MaxBeyondPage == 1

MaxProps == 2

MaxSecond == 9

MaxAttempts == 2

MaxServers == 2

----------------------------------------------------------------------------
(* Strings *)

Tokens == {"/", "applications", "x", "1", "2"}

IsDigit(c) == c \in {"1", "2"}

StringsUpTo(n) == UNION {[1..k -> Tokens] : k \in 0..n}

\* str.rstrip("/")
RECURSIVE RStripSlash(_)
RStripSlash(s) ==
    IF s # <<>> /\ s[Len(s)] = "/" THEN RStripSlash(SubSeq(s, 1, Len(s) - 1))
    ELSE s

\* str.lstrip("/")
RECURSIVE LStripSlash(_)
LStripSlash(s) ==
    IF s # <<>> /\ s[1] = "/" THEN LStripSlash(Tail(s)) ELSE s

\* "/applications/" starts at position i of u
AppsAt(u, i) ==
    /\ i >= 1
    /\ i + 2 <= Len(u)
    /\ u[i] = "/"
    /\ u[i + 1] = "applications"
    /\ u[i + 2] = "/"

\* "/applications/" in url
ContainsApplications(u) == \E i \in 1..Len(u) : AppsAt(u, i)

\* first position >= k of u that holds a slash, Len(u)+1 when there is none
RECURSIVE SegEnd(_, _)
SegEnd(u, k) ==
    IF k > Len(u) THEN Len(u) + 1
    ELSE IF u[k] = "/" THEN k
    ELSE SegEnd(u, k + 1)

\* the pattern (.*?/applications/[^/]+/)(.+) matches with "/applications/"
\* at position i: a non-empty segment, a slash, and a non-empty rest
PatternMatchesAt(u, i) ==
    /\ AppsAt(u, i)
    /\ LET e == SegEnd(u, i + 3)
       IN  e > i + 3 /\ e < Len(u)

\* pattern.search(url): the lazy .*? stops at the first position that lets
\* the rest of the pattern match; 0 when there is no match
RECURSIVE PatternSearchFrom(_, _)
PatternSearchFrom(u, i) ==
    IF i > Len(u) THEN 0
    ELSE IF PatternMatchesAt(u, i) THEN i
    ELSE PatternSearchFrom(u, i + 1)

PatternSearch(u) == PatternSearchFrom(u, 1)

\* re.match(r"^\d+/", suffix), scanning from position k
RECURSIVE DigitsThenSlashFrom(_, _)
DigitsThenSlashFrom(s, k) ==
    IF k > Len(s) THEN FALSE
    ELSE IF IsDigit(s[k]) THEN
        IF k + 1 <= Len(s) /\ s[k + 1] = "/" THEN TRUE
        ELSE DigitsThenSlashFrom(s, k + 1)
    ELSE FALSE

\* mutation: the attempt test looks at the first character only
StartsWithAttempt_FirstDigitOnly(s) == s # <<>> /\ IsDigit(s[1])

StartsWithAttempt(s) == DigitsThenSlashFrom(s, 1)

\* SparkRestClient._modify_url
ModifyUrl(url) ==
    LET i == PatternSearch(url)
    IN  IF i = 0 THEN url
        ELSE LET e      == SegEnd(url, i + 3)
                 prefix == SubSeq(url, 1, e)
                 suffix == SubSeq(url, e + 1, Len(url))
             IN  IF ~StartsWithAttempt(suffix)
                 THEN prefix \o <<"1", "/">> \o suffix
                 ELSE url

\* urljoin(base_url + "/", endpoint.lstrip("/")) for a relative endpoint
\* without scheme, query, fragment or dot segments: the endpoint is appended
UrlJoin(base, endpoint) == base \o <<"/">> \o LStripSlash(endpoint)

----------------------------------------------------------------------------
(* Inputs of the REST client *)

ApiV1 == <<"/", "x", "/", "x", "1">>            \* "/api/v1"

\* ServerConfig.url values: "http://host", "http://host/" and a history
\* server published below a path that itself holds an applications segment
ConfigUrls ==
    { <<"x", "/", "/", "x">>,
      <<"x", "/", "/", "x", "/">>,
      <<"x", "/", "/", "x", "/", "applications", "/", "x">> }

\* endpoints passed to _get by the public methods
Endpoints ==
    { <<"x">>,                                                \* version
      <<"applications">>,                                     \* list_applications
      <<"applications", "/", "x">>,                           \* get_application
      <<"applications", "/", "x", "/", "2">>,                 \* get_application_attempt
      <<"applications", "/", "x", "/", "x">>,                 \* list_jobs
      <<"applications", "/", "x", "/", "x", "/", "2">>,       \* get_job
      <<"applications", "/", "x", "/", "2", "/", "x">>,       \* get_sql_list with attempt
      <<"applications", "/", "x", "/", "2", "2", "/", "x">> } \* attempt "22"

ParamSets == {None, "offset=0", "status=x"}

Bodies == {"json_a", "json_b"}

CookieJars == {"jar_a", "jar_b"}

\* what the server or the network does with one HTTP request
ServerOutcomes ==
    [kind : {"ok"}, body : Bodies, status : {200}]
    \cup [kind : {"http_error"}, body : {None}, status : {404, 500}]
    \cup [kind : {"connection_error", "timeout", "bad_json"},
          body : {None}, status : {0}]

----------------------------------------------------------------------------
(* list_slowest_sql_queries *)

\* ExecutionData.status and ExecutionData.duration (Optional[int]): has is
\* FALSE for a duration that is None
Statuses == {"RUNNING", "COMPLETED"}

Durations ==
    {[has |-> FALSE, ms |-> 0]} \cup {[has |-> TRUE, ms |-> m] : m \in 0..MaxDuration}

\* the SQL executions an application can have on the server, in server
\* order; the id of an execution is its position
Collections ==
    UNION { { [i \in 1..n |-> [id |-> i, status |-> f[i][1], duration |-> f[i][2]]] :
                f \in [1..n -> Statuses \X Durations] } : n \in 0..MaxItems }

Min(a, b) == IF a < b THEN a ELSE b

\* the server's answer to get_sql_list(offset, length): that slice of the
\* collection
ServerPage(coll, offset, length) ==
    SubSeq(coll, offset + 1, Min(offset + length, Len(coll)))

\* mutation: a full page ends the loop too
LastPage_OffByOne(executions, page_size) == Len(executions) <= page_size

\* "if len(executions) < page_size: break"
LastPage(executions, page_size) == Len(executions) < page_size

\* "[e for e in all_executions if e.status != RUNNING]" when running
\* executions are not included
RECURSIVE DropRunning(_)
DropRunning(execs) ==
    IF execs = <<>> THEN <<>>
    ELSE IF Head(execs).status # "RUNNING"
         THEN <<Head(execs)>> \o DropRunning(Tail(execs))
         ELSE DropRunning(Tail(execs))

\* stable insertion of e into a sequence ordered by descending duration:
\* behind every element whose duration is not smaller
RECURSIVE InsertDesc(_, _)
InsertDesc(sorted, e) ==
    IF sorted = <<>> THEN <<e>>
    ELSE IF Head(sorted).duration.ms >= e.duration.ms
         THEN <<Head(sorted)>> \o InsertDesc(Tail(sorted), e)
         ELSE <<e>> \o sorted

\* sorted(execs, key=lambda e: e.duration, reverse=True): stable
RECURSIVE SortedByDurationDesc(_)
SortedByDurationDesc(execs) ==
    IF execs = <<>> THEN <<>>
    ELSE InsertDesc(SortedByDurationDesc(SubSeq(execs, 1, Len(execs) - 1)),
                    execs[Len(execs)])

\* sorted() compares the keys: with two or more elements every key takes
\* part in a comparison, and comparing None raises TypeError
SortRaises(execs) ==
    Len(execs) >= 2 /\ \E i \in 1..Len(execs) : ~execs[i].duration.has

PageOff ==
    /\ pg_pc = "off"
    /\ pg_args = [page_size |-> 1, top_n |-> 1, include_running |-> FALSE]
    /\ pg_coll = <<>>
    /\ pg_offset = 0
    /\ pg_all = <<>>
    /\ pg_calls = <<>>
    /\ pg_result = [kind |-> "none", value |-> <<>>]

\* one turn of the "while True" loop: get_sql_list succeeds
FetchPage ==
    /\ pg_pc = "loop"
    /\ LET executions == ServerPage(pg_coll, pg_offset, pg_args.page_size)
       IN  /\ pg_calls' = Append(pg_calls, [offset |-> pg_offset, length |-> pg_args.page_size])
           /\ IF executions = <<>>
              THEN /\ pg_pc' = "fetched"
                   /\ UNCHANGED <<pg_all, pg_offset>>
              ELSE /\ pg_all' = pg_all \o executions
                   /\ pg_offset' = pg_offset + pg_args.page_size
                   /\ pg_pc' = IF LastPage(executions, pg_args.page_size)
                               THEN "fetched" ELSE "loop"
    /\ UNCHANGED <<pg_args, pg_coll, pg_result>>
    /\ UNCHANGED nonPageVars

\* one turn of the loop: get_sql_list raises, the tool raises
FetchFails ==
    /\ pg_pc = "loop"
    /\ pg_calls' = Append(pg_calls, [offset |-> pg_offset, length |-> pg_args.page_size])
    /\ pg_pc' = "raised"
    /\ pg_result' = [kind |-> "HTTPError", value |-> <<>>]
    /\ UNCHANGED <<pg_args, pg_coll, pg_offset, pg_all>>
    /\ UNCHANGED nonPageVars

\* behind the loop: filter, sort, take the first top_n
SortAndReturn ==
    /\ pg_pc = "fetched"
    /\ LET kept == IF pg_args.include_running THEN pg_all ELSE DropRunning(pg_all)
       IN  IF SortRaises(kept)
           THEN /\ pg_pc' = "raised"
                /\ pg_result' = [kind |-> "TypeError", value |-> <<>>]
           ELSE /\ pg_pc' = "done"
                /\ pg_result' =
                      [kind |-> "returned",
                       value |-> SubSeq(SortedByDurationDesc(kept), 1,
                                        Min(pg_args.top_n, Len(kept)))]
    /\ UNCHANGED <<pg_args, pg_coll, pg_offset, pg_all, pg_calls>>
    /\ UNCHANGED nonPageVars

----------------------------------------------------------------------------
(* EMRPersistentUIClient *)

\* a URL as urlparse splits it; NoUrl is None
NoUrl == [scheme |-> None, netloc |-> None, path |-> None]

PresignedUrls ==
    { [scheme |-> "https", netloc |-> "host_a", path |-> "/presigned"],
      [scheme |-> "https", netloc |-> "host_b", path |-> "/presigned"] }

\* "{parsed_url.scheme}://{parsed_url.netloc}"; urlparse(None) gives empty
\* bytes components, which format as b''
BaseUrlOf(url) ==
    IF url = NoUrl
    THEN [scheme |-> "b''", netloc |-> "b''", path |-> ""]
    ELSE [scheme |-> url.scheme, netloc |-> url.netloc, path |-> ""]

\* EMRPersistentUIClient.__init__
NewEmrClient ==
    [persistent_ui_id |-> None,
     presigned_url    |-> NoUrl,
     base_url         |-> NoUrl,
     headers          |-> "default",
     cookies          |-> "no_cookies"]

\* answers of the EMR API and of the GET on the presigned URL
CreateOutcomes ==
    [kind : {"ok"}, id : {None, "ui_1", "ui_2"}]
    \cup [kind : {"ClientError"}, id : {None}]

DescribeOutcomes ==
    [kind : {"ok"}, status : {"ATTACHED", "PENDING", None}]
    \cup [kind : {"ClientError"}, status : {None}]

PresignOutcomes ==
    [kind : {"ok"}, url : PresignedUrls \cup {NoUrl}]
    \cup [kind : {"ClientError"}, url : {NoUrl}]

SessionOutcomes ==
    [kind : {"ok"}, cookies : CookieJars]
    \cup [kind : {"HTTPError", "ConnectionError"}, cookies : {None}]

\* what one step operation did: the client's fields behind it, whether it
\* raised and what, the remote calls it made, the value it returned
StepResult(e, error, api, value) ==
    [emr |-> e, raised |-> (error # None), error |-> error, api |-> api,
     value |-> value]

Call(step, ok, detail) == [step |-> step, ok |-> ok, detail |-> detail]

\* create_persistent_app_ui
CreateStep(e, o) ==
    IF o.kind = "ok"
    THEN StepResult([e EXCEPT !.persistent_ui_id = o.id], None,
                    <<Call("create", TRUE, o.id)>>, None)
    ELSE StepResult(e, o.kind, <<Call("create", FALSE, None)>>, None)

\* mutation: describe without the check of the UI identifier
DescribeStep_Unguarded(e, o) ==
    IF o.kind = "ok"
    THEN StepResult(e, None, <<Call("describe", TRUE, o.status)>>, o.status)
    ELSE StepResult(e, o.kind, <<Call("describe", FALSE, None)>>, None)

\* describe_persistent_app_ui
DescribeStep(e, o) ==
    IF e.persistent_ui_id = None
    THEN StepResult(e, "ValueError", <<>>, None)
    ELSE IF o.kind = "ok"
    THEN StepResult(e, None, <<Call("describe", TRUE, o.status)>>, o.status)
    ELSE StepResult(e, o.kind, <<Call("describe", FALSE, None)>>, None)

\* get_presigned_url
PresignStep(e, o) ==
    IF e.persistent_ui_id = None
    THEN StepResult(e, "ValueError", <<>>, None)
    ELSE IF o.kind = "ok"
    THEN StepResult([e EXCEPT !.presigned_url = o.url,
                              !.base_url = BaseUrlOf(o.url)],
                    None, <<Call("presign", TRUE, o.url.netloc)>>, o.url)
    ELSE StepResult(e, o.kind, <<Call("presign", FALSE, None)>>, None)

\* setup_http_session: the headers are set before the GET is made
SessionStep(e, o) ==
    IF e.presigned_url = NoUrl
    THEN StepResult(e, "ValueError", <<>>, None)
    ELSE IF o.kind = "ok"
    THEN StepResult([e EXCEPT !.headers = "browser", !.cookies = o.cookies],
                    None, <<Call("session", TRUE, e.presigned_url.netloc)>>,
                    o.cookies)
    ELSE StepResult([e EXCEPT !.headers = "browser"], o.kind,
                    <<Call("session", FALSE, e.presigned_url.netloc)>>, None)

\* the step operation that ran last: its name, the fields before it, and
\* what it did
LastOp(op, pre, r) ==
    [op |-> op, pre |-> pre, raised |-> r.raised, error |-> r.error,
     api |-> r.api]

NoLastOp ==
    [op |-> "none", pre |-> NewEmrClient, raised |-> FALSE, error |-> None,
     api |-> <<>>]

EmrOff ==
    /\ emr = NewEmrClient
    /\ e_pc = "off"
    /\ e_after = "off"
    /\ e_calls = <<>>
    /\ e_error = None
    /\ e_last = NoLastOp

\* no initialize() is running: none was called since the client was built
\* or a step operation was called on its own ("idle"), or the last
\* initialize() returned ("done") or raised ("failed")
EmrAtRest == e_pc \in {"idle", "done", "failed"}

\* a step operation called on its own, outside initialize()
DirectCall(op, r) ==
    /\ EmrAtRest
    /\ emr' = r.emr
    /\ e_last' = LastOp(op, emr, r)
    /\ e_pc' = "idle"
    /\ e_calls' = <<>>
    /\ e_error' = None
    /\ UNCHANGED e_after
    /\ UNCHANGED nonEmrVars

DirectCreate(o)   == DirectCall("create_persistent_app_ui", CreateStep(emr, o))

DirectDescribe(o) == DirectCall("describe_persistent_app_ui", DescribeStep(emr, o))

DirectPresign(o)  == DirectCall("get_presigned_url", PresignStep(emr, o))

DirectSession(o)  == DirectCall("setup_http_session", SessionStep(emr, o))

\* mutation: initialize() skips create when a UI identifier is there already
FirstStep_Resume(e) ==
    IF e.persistent_ui_id = None THEN "create" ELSE "describe"

\* initialize(): the step it begins with
FirstStep(e) == "create"

\* mutation: any status that is present passes
StatusAccepted_AnyPresent(ui_status) == ui_status # None

\* initialize(): 'if ui_status != "ATTACHED": raise ValueError'
StatusAccepted(ui_status) == ui_status = "ATTACHED"

\* initialize() is called
InitializeStart ==
    /\ EmrAtRest
    /\ e_after' = e_pc
    /\ e_pc' = FirstStep(emr)
    /\ e_calls' = <<>>
    /\ e_error' = None
    /\ e_last' = NoLastOp
    /\ UNCHANGED emr
    /\ UNCHANGED nonEmrVars

\* mutation: initialize() goes on behind a step that raised
InitializeStep_IgnoresError(op, r, next) ==
    /\ emr' = r.emr
    /\ e_calls' = e_calls \o r.api
    /\ e_last' = LastOp(op, emr, r)
    /\ e_pc' = next
    /\ UNCHANGED <<e_error, e_after>>
    /\ UNCHANGED nonEmrVars

\* one step of initialize(): the step operation r ran; on its error
\* initialize() raises it, otherwise it goes on at next
InitializeStep(op, r, next) ==
    /\ emr' = r.emr
    /\ e_calls' = e_calls \o r.api
    /\ e_last' = LastOp(op, emr, r)
    /\ IF r.raised
       THEN e_pc' = "failed" /\ e_error' = r.error
       ELSE e_pc' = next /\ UNCHANGED e_error
    /\ UNCHANGED e_after
    /\ UNCHANGED nonEmrVars

\* Step 1
InitializeCreate(o) ==
    /\ e_pc = "create"
    /\ InitializeStep("create_persistent_app_ui", CreateStep(emr, o), "describe")

\* Step 2, with the check of the status
InitializeDescribe(o) ==
    /\ e_pc = "describe"
    /\ LET r == DescribeStep(emr, o)
       IN  IF ~r.raised /\ ~StatusAccepted(r.value)
           THEN /\ e_pc' = "failed"
                /\ e_error' = "ValueError"
                /\ emr' = r.emr
                /\ e_calls' = e_calls \o r.api
                /\ e_last' = LastOp("describe_persistent_app_ui", emr, r)
                /\ UNCHANGED e_after
                /\ UNCHANGED nonEmrVars
           ELSE InitializeStep("describe_persistent_app_ui", r, "presign")

\* Step 3
InitializePresign(o) ==
    /\ e_pc = "presign"
    /\ InitializeStep("get_presigned_url", PresignStep(emr, o), "session")

\* Step 4 and "return self.base_url, self.session"
InitializeSession(o) ==
    /\ e_pc = "session"
    /\ InitializeStep("setup_http_session", SessionStep(emr, o), "done")

----------------------------------------------------------------------------
(* _modify_url applied to an arbitrary URL *)

UrlInputs ==
    StringsUpTo(MaxUrlLen)
    \cup {UrlJoin(RStripSlash(b) \o ApiV1, e) : b \in ConfigUrls, e \in Endpoints}

UrlOff ==
    /\ mu_pc = "off"
    /\ mu_url = <<>>
    /\ mu_result = <<>>

ApplyModifyUrl ==
    /\ mu_pc = "input"
    /\ mu_result' = ModifyUrl(mu_url)
    /\ mu_pc' = "done"
    /\ UNCHANGED mu_url
    /\ UNCHANGED nonUrlVars

----------------------------------------------------------------------------
(* SparkRestClient *)

\* ServerConfig values the client is built from.  For a server with
\* emr_cluster_arn, app_lifespan replaces url by the bootstrap's base URL.
ServerConfigs ==
    [url : ConfigUrls, username : BOOLEAN, password : BOOLEAN,
     token : BOOLEAN, emr_cluster_arn : {FALSE}]
    \cup [url : {<<"x", "/", "/", "x">>}, username : BOOLEAN,
          password : BOOLEAN, token : BOOLEAN, emr_cluster_arn : {TRUE}]

\* self.session = None
NoSession == [id |-> None, cookies |-> None]

\* SparkRestClient.__init__: base_url, auth tuple (only when both username
\* and password are set), no session
NewClient(cfg) ==
    [config   |-> cfg,
     base_url |-> RStripSlash(cfg.url) \o ApiV1,
     auth     |-> (cfg.username /\ cfg.password),
     session  |-> NoSession]

\* mutation: the request is always a plain requests.get
MakeRequest_IgnoresSession(c, request_url, params) ==
    [url |-> request_url, params |-> params,
     bearer |-> c.config.token, basic |-> c.auth,
     via |-> None, cookies |-> None]

\* SparkRestClient._make_request: the GET that is issued for (url, params).
\* bearer: an "Authorization: Bearer" header is passed; basic: the
\* (username, password) tuple is passed as auth=; via: the session object
\* the request goes through, None for a plain requests.get
MakeRequest(c, request_url, params) ==
    IF c.session.id # None
    THEN [url |-> request_url, params |-> params,
          bearer |-> c.config.token, basic |-> FALSE,
          via |-> c.session.id, cookies |-> c.session.cookies]
    ELSE [url |-> request_url, params |-> params,
          bearer |-> c.config.token, basic |-> c.auth,
          via |-> None, cookies |-> None]

\* get_metrics_prometheus: "<url>/metrics/prometheus"
MetricsUrl(c) == RStripSlash(c.config.url) \o <<"/", "x", "/", "x">>

\* get_metrics_prometheus: its own GET, no headers and no auth
MetricsRequest(c) ==
    LET url == MetricsUrl(c)
    IN  IF c.session.id # None
        THEN [url |-> url, params |-> None, bearer |-> FALSE, basic |-> FALSE,
              via |-> c.session.id, cookies |-> c.session.cookies]
        ELSE [url |-> url, params |-> None, bearer |-> FALSE, basic |-> FALSE,
              via |-> None, cookies |-> None]

\* the exception object that request number n raises for server outcome o
ErrorOf(o, n) ==
    [type   |-> CASE o.kind = "http_error"       -> "HTTPError"
                  [] o.kind = "connection_error" -> "ConnectionError"
                  [] o.kind = "timeout"          -> "Timeout"
                  [] OTHER                       -> "JSONDecodeError",
     status |-> o.status,
     request |-> n]

\* an exception leaving _get: the object, its __cause__ and its __context__
NoError == [type |-> None, status |-> 0, request |-> 0]

Raised(e, cause, context) ==
    [kind |-> "raised", error |-> e, cause |-> cause, context |-> context,
     body |-> None]

Returned(body) ==
    [kind |-> "returned", error |-> NoError, cause |-> NoError, context |-> NoError,
     body |-> body]

NoOutcome ==
    [kind |-> "none", error |-> NoError, cause |-> NoError, context |-> NoError,
     body |-> None]

\* mutation: the fallback is tried for every HTTP error status
FallbackCondition_AnyStatus(e, url) ==
    e.type = "HTTPError" /\ ContainsApplications(url)

\* the condition of the fallback in _get
FallbackCondition(e, url) ==
    e.type = "HTTPError" /\ e.status = 404 /\ ContainsApplications(url)

\* mutation: a failed retry raises the original error again
RetryFailure_RaisesOriginal(e, e2) == Raised(e, NoError, NoError)

\* _get, "except HTTPError as e2: raise e2 from e" around the fallback request,
\* which runs inside the except block of the first error e: an HTTPError of
\* the retry gets e as __cause__, any other exception of the retry passes
\* through with e as its __context__ only
RetryFailure(e, e2) ==
    IF e2.type = "HTTPError" THEN Raised(e2, e, e) ELSE Raised(e2, NoError, e)

\* app_lifespan: the session returned by EMRPersistentUIClient.initialize()
\* is installed on the client built for an EMR server, before it is used
InstallSession(jar) ==
    /\ rpc = "idle"
    /\ client.config.emr_cluster_arn
    /\ client.session.id = None
    /\ client' = [client EXCEPT !.session = [id |-> "emr_session", cookies |-> jar]]
    /\ UNCHANGED <<rpc, rurl, rparams, httpLog, respLog, outcome>>
    /\ UNCHANGED nonRestVars

ClientReady ==
    /\ rpc \in {"idle", "returned", "raised"}
    /\ client.config.emr_cluster_arn => client.session.id # None

\* _get, up to the first request
GetStart(endpoint, params) ==
    /\ ClientReady
    /\ LET url == UrlJoin(client.base_url, endpoint)
       IN  /\ rurl' = url
           /\ httpLog' = <<MakeRequest(client, url, params)>>
    /\ rparams' = params
    /\ respLog' = <<>>
    /\ outcome' = NoOutcome
    /\ rpc' = "first"
    /\ UNCHANGED client
    /\ UNCHANGED nonRestVars

\* _get, from the first response on: return the JSON body, raise the error,
\* or send the fallback request
FirstResponse(o) ==
    /\ rpc = "first"
    /\ respLog' = Append(respLog, o)
    /\ LET e == ErrorOf(o, 1)
       IN  IF o.kind = "ok"
           THEN /\ outcome' = Returned(o.body)
                /\ rpc' = "returned"
                /\ UNCHANGED httpLog
           ELSE IF FallbackCondition(e, rurl)
           THEN /\ httpLog' = Append(httpLog,
                                     MakeRequest(client, ModifyUrl(rurl), rparams))
                /\ rpc' = "second"
                /\ UNCHANGED outcome
           ELSE \* "raise e from None", or an error that is not an HTTPError
                /\ outcome' = Raised(e, NoError, NoError)
                /\ rpc' = "raised"
                /\ UNCHANGED httpLog
    /\ UNCHANGED <<client, rurl, rparams>>
    /\ UNCHANGED nonRestVars

\* _get, the response of the fallback request
SecondResponse(o) ==
    /\ rpc = "second"
    /\ respLog' = Append(respLog, o)
    /\ LET e  == ErrorOf(respLog[1], 1)
           e2 == ErrorOf(o, 2)
       IN  IF o.kind = "ok"
           THEN /\ outcome' = Returned(o.body)
                /\ rpc' = "returned"
           ELSE /\ outcome' = RetryFailure(e, e2)
                /\ rpc' = "raised"
    /\ UNCHANGED <<client, rurl, rparams, httpLog>>
    /\ UNCHANGED nonRestVars

\* get_metrics_prometheus: one GET, raise_for_status, the text
GetMetricsPrometheus(o) ==
    /\ ClientReady
    /\ o.kind # "bad_json"
    /\ LET req == MetricsRequest(client)
       IN  /\ rurl' = req.url
           /\ httpLog' = <<req>>
    /\ rparams' = None
    /\ respLog' = <<o>>
    /\ IF o.kind = "ok"
       THEN outcome' = Returned(o.body) /\ rpc' = "returned"
       ELSE outcome' = Raised(ErrorOf(o, 1), NoError, NoError) /\ rpc' = "raised"
    /\ UNCHANGED client
    /\ UNCHANGED nonRestVars

RestOff ==
    /\ client = NewClient(CHOOSE cfg \in ServerConfigs : TRUE)
    /\ rpc = "off"
    /\ rurl = <<>>
    /\ rparams = None
    /\ httpLog = <<>>
    /\ respLog = <<>>
    /\ outcome = NoOutcome

----------------------------------------------------------------------------
(* The analytics tools *)

NoInput == [tool |-> "none"]

NoToolResult == [kind |-> "none"]

ToolOff ==
    /\ t_tool = "off"
    /\ t_in = NoInput
    /\ t_out = NoToolResult

\* a tool returned value / the exception of a fetch left the tool
ToolReturned(value) == [kind |-> "returned", value |-> value]

ToolRaised(error) == [kind |-> "raised", error |-> error]

\* what a fetch of the REST client can do inside a tool
FetchOutcomes == {"ok", "HTTPError"}

\* a tool that answers with what it computed even though a fetch failed
ToolCall_SwallowsError(tool, o, out) ==
    /\ t_tool = "ready"
    /\ t_tool' = tool
    /\ t_out' = out
    /\ UNCHANGED t_in
    /\ UNCHANGED nonToolVars

\* a tool is called: its fetch fails, or it comes to the outcome out
\* computed from what it fetched
ToolCall(tool, o, out) ==
    /\ t_tool = "ready"
    /\ t_tool' = tool
    /\ t_out' = IF o = "ok" THEN out ELSE ToolRaised(o)
    /\ UNCHANGED t_in
    /\ UNCHANGED nonToolVars

\* an Optional[...] field: has is FALSE for None
Absent == [has |-> FALSE, v |-> 0]

Present(x) == [has |-> TRUE, v |-> x]

Optional(S) == {Absent} \cup {Present(x) : x \in S}

\* stable insertion of the pair p = <<key, item>> into pairs ordered by
\* descending key: behind every pair whose key is not smaller
RECURSIVE InsertKeyedDesc(_, _)
InsertKeyedDesc(sorted, p) ==
    IF sorted = <<>> THEN <<p>>
    ELSE IF Head(sorted)[1] >= p[1]
         THEN <<Head(sorted)>> \o InsertKeyedDesc(Tail(sorted), p)
         ELSE <<p>> \o sorted

\* mutation: the order of the fetch is kept
SortKeyedDesc_Unsorted(pairs) == pairs

\* sorted(..., key=..., reverse=True) on <<key, item>> pairs: stable
RECURSIVE SortKeyedDesc(_)
SortKeyedDesc(pairs) ==
    IF pairs = <<>> THEN <<>>
    ELSE InsertKeyedDesc(SortKeyedDesc(SubSeq(pairs, 1, Len(pairs) - 1)),
                         pairs[Len(pairs)])

Max(a, b) == IF a > b THEN a ELSE b

\* seq[:n]
Slice(seq, n) ==
    IF n >= 0 THEN SubSeq(seq, 1, Min(n, Len(seq)))
    ELSE SubSeq(seq, 1, Max(Len(seq) + n, 0))

----------------------------------------------------------------------------
(* list_slowest_jobs and list_slowest_stages *)

\* the jobs (or stages) of an application in the order of the server's
\* answer, each with one of the given statuses; the id is the position.
\* JobData.status / StageData.status are plain strings: of a job's statuses
\* RUNNING, SUCCEEDED, FAILED, UNKNOWN and a stage's statuses PENDING, ACTIVE,
\* COMPLETE, SKIPPED, FAILED the lists take the one of a running item and
\* one other; submission_time and completion_time are in seconds
StatusLists(statuses) ==
    UNION { { [i \in 1..n |-> [id |-> i, status |-> f[i][1],
                               submission_time |-> f[i][2],
                               completion_time |-> f[i][3]]] :
                f \in [1..n -> statuses \X Optional({0})
                                 \X Optional({1, 2})] } :
            n \in 0..MaxJobs }

\* get_job_duration / get_stage_duration
JobDuration(job) ==
    IF job.completion_time.has /\ job.submission_time.has
    THEN job.completion_time.v - job.submission_time.v
    ELSE 0

\* the body shared by list_slowest_jobs and list_slowest_stages behind the
\* fetch
ListSlowest(items, include_running, n) ==
    IF items = <<>> THEN <<>>
    ELSE LET kept == IF include_running THEN items ELSE DropRunning(items)
         IN  IF kept = <<>> THEN <<>>
             ELSE LET sorted == SortKeyedDesc(
                                   [i \in 1..Len(kept) |->
                                       <<JobDuration(kept[i]), kept[i]>>])
                  IN  Slice([i \in 1..Len(sorted) |-> sorted[i][2]], n)

\* list_slowest_jobs: client.list_jobs(app_id) is the fetch
ListSlowestJobs(o) ==
    /\ t_in.kind = "jobs"
    /\ ToolCall("list_slowest_jobs", o,
                ToolReturned(ListSlowest(t_in.items, t_in.include_running,
                                         t_in.n)))

\* list_slowest_stages: client.list_stages(app_id, details=True) is the fetch
ListSlowestStages(o) ==
    /\ t_in.kind = "stages"
    /\ ToolCall("list_slowest_stages", o,
                ToolReturned(ListSlowest(t_in.items, t_in.include_running,
                                         t_in.n)))

----------------------------------------------------------------------------
(* get_executor_summary *)

\* the fields of ExecutorSummary that get_executor_summary adds up under
\* the summary key of the same name
MetricFields ==
    {"disk_used", "completed_tasks", "failed_tasks", "total_duration",
     "total_gc_time", "total_input_bytes", "total_shuffle_read",
     "total_shuffle_write"}

\* MemoryMetrics with its two used_*_storage_memory fields
MemoryMetricsOf(on, off) ==
    [used_on_heap_storage_memory |-> on, used_off_heap_storage_memory |-> off]

\* an ExecutorSummary: is_active, memory_metrics and the metric fields m are
\* all Optional
ExecutorOf(active, mm, m) == [is_active |-> active, memory_metrics |-> mm, m |-> m]

\* executors with every metric there, and executors that lack one metric,
\* one memory figure or the memory-metrics record
SummaryExecutors ==
    { ExecutorOf(a, Present(MemoryMetricsOf(Present(v), Present(v))),
                 [f \in MetricFields |-> Present(v)]) :
        a \in Optional(BOOLEAN), v \in 0..MaxMetric }
    \cup { ExecutorOf(Present(TRUE), Present(MemoryMetricsOf(Present(1), Present(1))),
                      [f \in MetricFields |-> IF f = g THEN Absent ELSE Present(1)]) :
             g \in MetricFields }
    \cup { ExecutorOf(Present(TRUE), mm, [f \in MetricFields |-> Present(1)]) :
             mm \in {Absent,
                     Present(MemoryMetricsOf(Absent, Present(1))),
                     Present(MemoryMetricsOf(Present(1), Absent))} }

ExecutorLists(S) == UNION {[1..n -> S] : n \in 0..MaxExecutors}

\* what the additions of the loop body raise for one executor: an attribute
\* of None is read, or None is an operand of +
ExecutorError(e) ==
    IF ~e.memory_metrics.has THEN "AttributeError"
    ELSE IF \/ ~e.memory_metrics.v.used_on_heap_storage_memory.has
            \/ ~e.memory_metrics.v.used_off_heap_storage_memory.has
            \/ \E f \in MetricFields : ~e.m[f].has
         THEN "TypeError"
         ELSE None

RECURSIVE SumSeq(_)
SumSeq(xs) == IF xs = <<>> THEN 0 ELSE Head(xs) + SumSeq(Tail(xs))

\* get_executor_summary behind the fetch of list_all_executors: the
\* exception of the first executor the loop cannot add, or the summary
ExecutorSummaryOf(executors) ==
    LET bad == {i \in 1..Len(executors) : ExecutorError(executors[i]) # None}
    IN  IF bad # {}
        THEN ToolRaised(ExecutorError(executors[CHOOSE i \in bad : \A j \in bad : i <= j]))
        ELSE ToolReturned(
               [total_executors  |-> Len(executors),
                active_executors |->
                    Cardinality({i \in 1..Len(executors) :
                                    executors[i].is_active = Present(TRUE)}),
                memory_used |->
                    SumSeq([i \in 1..Len(executors) |->
                              executors[i].memory_metrics.v.used_on_heap_storage_memory.v
                              + executors[i].memory_metrics.v.used_off_heap_storage_memory.v]),
                m |-> [f \in MetricFields |->
                          SumSeq([i \in 1..Len(executors) |-> executors[i].m[f].v])]])

GetExecutorSummary(o) ==
    ToolCall("get_executor_summary", o, ExecutorSummaryOf(t_in.executors))

----------------------------------------------------------------------------
(* get_job_bottlenecks *)

\* "100 * 1024 * 1024" bytes, in MiB; the model gives memory_bytes_spilled
\* in MiB
SpillThresholdMiB == 100

\* what get_job_bottlenecks is called with and fetches: finished stages
\* that differ in memory_bytes_spilled, one job, executors that differ in
\* GC time, task time and failed tasks or lack a metric
BottleneckInputs ==
    [stages :
        UNION { { [i \in 1..n |-> [id |-> i, status |-> "COMPLETE",
                                   submission_time |-> Present(0),
                                   completion_time |-> Present(1),
                                   memory_bytes_spilled |-> f[i]]] :
                    f \in [1..n -> Optional({50, SpillThresholdMiB, 150, 200})] } :
                n \in 0..MaxStages },
     jobs :
        { <<[id |-> 1, status |-> "SUCCEEDED", submission_time |-> Present(0),
             completion_time |-> Present(2)]>> },
     executors :
        ExecutorLists(
          { ExecutorOf(Present(TRUE), Present(MemoryMetricsOf(Present(0), Present(0))),
                       [f \in MetricFields |->
                           CASE f = "total_gc_time"  -> Present(gc)
                             [] f = "total_duration" -> Present(dur)
                             [] f = "failed_tasks"   -> Present(failed)
                             [] OTHER                -> Present(0)]) :
              gc \in {0, 1}, dur \in {0, 10}, failed \in {0, 1} }
          \cup { ExecutorOf(Present(TRUE),
                            Present(MemoryMetricsOf(Present(0), Present(0))),
                            [f \in MetricFields |->
                                IF f = "total_gc_time" THEN Absent ELSE Present(0)]) }),
     top_n : 0..MaxTopN]

\* mutation: a stage at the threshold counts too
HighSpill_AtThreshold(stage) ==
    /\ stage.memory_bytes_spilled.has
    /\ stage.memory_bytes_spilled.v >= SpillThresholdMiB

\* "stage.memory_bytes_spilled and stage.memory_bytes_spilled > 100 MiB"
HighSpill(stage) ==
    /\ stage.memory_bytes_spilled.has
    /\ stage.memory_bytes_spilled.v # 0
    /\ stage.memory_bytes_spilled.v > SpillThresholdMiB

\* high_spill_stages: the entries of the stages with high spill, in stage
\* order, then sorted by memory_spilled_mb in descending order
RECURSIVE SpillEntries(_)
SpillEntries(stages) ==
    IF stages = <<>> THEN <<>>
    ELSE (IF HighSpill(Head(stages))
          THEN <<[stage_id |-> Head(stages).id,
                  memory_spilled_mb |-> Head(stages).memory_bytes_spilled.v]>>
          ELSE <<>>) \o SpillEntries(Tail(stages))

HighSpillStages(stages) ==
    LET entries == SpillEntries(stages)
        sorted  == SortKeyedDesc([i \in 1..Len(entries) |->
                                     <<entries[i].memory_spilled_mb, entries[i]>>])
    IN  [i \in 1..Len(sorted) |-> sorted[i][2]]

\* a quotient of two integers, kept as the pair; den is what the code
\* divides by
Ratio(num, den) == [num |-> num, den |-> den]

\* mutation: no case for a total duration of 0
GcPressure_NoZeroCase(summary) ==
    Ratio(summary.m["total_gc_time"], Max(summary.m["total_duration"], 1))

\* gc_pressure
GcPressure(summary) ==
    IF summary.m["total_duration"] > 0
    THEN Ratio(summary.m["total_gc_time"], Max(summary.m["total_duration"], 1))
    ELSE Ratio(0, 1)

\* mutation: a pressure of exactly 0.10 is reported too
Above10Percent_Inclusive(r) == 10 * r.num >= r.den

\* "gc_pressure > 0.1"
Above10Percent(r) == 10 * r.num > r.den

\* the three "if ...: recommendations.append(...)" in their order
Recommendations(gc_pressure, high_spill_stages, summary) ==
    (IF Above10Percent(gc_pressure)
     THEN <<[type |-> "memory", priority |-> "high", issue |-> "gc_pressure"]>>
     ELSE <<>>)
    \o (IF high_spill_stages # <<>>
        THEN <<[type |-> "memory", priority |-> "high", issue |-> "memory_spill"]>>
        ELSE <<>>)
    \o (IF summary.m["failed_tasks"] > 0
        THEN <<[type |-> "reliability", priority |-> "medium", issue |-> "failed_tasks"]>>
        ELSE <<>>)

\* get_job_bottlenecks behind its fetches: the exception of
\* get_executor_summary leaves it, otherwise the report
JobBottlenecks(stages, jobs, executors, top_n) ==
    LET exec == ExecutorSummaryOf(executors)
    IN  IF exec.kind = "raised" THEN exec
        ELSE LET high_spill_stages == HighSpillStages(stages)
                 gc_pressure == GcPressure(exec.value)
             IN  ToolReturned(
                   [slowest_stages |-> Slice(ListSlowest(stages, FALSE, top_n), top_n),
                    slowest_jobs   |-> Slice(ListSlowest(jobs, FALSE, top_n), top_n),
                    memory_spill_stages |-> Slice(high_spill_stages, top_n),
                    gc_pressure_ratio   |-> gc_pressure,
                    utilization_ratio   |->
                        Ratio(exec.value.active_executors,
                              Max(exec.value.total_executors, 1)),
                    recommendations |->
                        Recommendations(gc_pressure, high_spill_stages, exec.value)])

GetJobBottlenecks(o) ==
    ToolCall("get_job_bottlenecks", o,
             JobBottlenecks(t_in.stages, t_in.jobs, t_in.executors, t_in.top_n))

----------------------------------------------------------------------------
(* compare_job_performance *)

\* what the server holds of one of the two applications: executors that
\* are idle, busy or lack a metric, and jobs that took 0 or 1 second or
\* have not completed
ComparedApps ==
    [executors :
        UNION {[1..n ->
                  { ExecutorOf(Present(TRUE),
                               Present(MemoryMetricsOf(Present(v), Present(0))),
                               [f \in MetricFields |-> Present(v)]) : v \in {0, 1} }
                  \cup { ExecutorOf(Present(TRUE), Absent,
                                    [f \in MetricFields |-> Present(0)]) }] :
               n \in 0..MaxCompared},
     jobs :
        UNION {{ [i \in 1..n |-> [id |-> i, status |-> "SUCCEEDED",
                                  submission_time |-> Present(0),
                                  completion_time |-> f[i]]] :
                   f \in [1..n -> Optional({0, 1})] } : n \in 0..MaxCompared}]

\* calc_job_stats; avg_duration is kept as the quotient sum / len
CalcJobStats(jobs) ==
    LET completed == {i \in 1..Len(jobs) :
                         jobs[i].completion_time.has /\ jobs[i].submission_time.has}
        total == SumSeq([i \in 1..Len(jobs) |->
                            IF i \in completed THEN JobDuration(jobs[i]) ELSE 0])
    IN  IF jobs = <<>> \/ completed = {}
        THEN [count |-> Len(jobs), total_duration |-> 0, avg_duration |-> Ratio(0, 1)]
        ELSE [count |-> Len(jobs), total_duration |-> total,
              avg_duration |-> Ratio(total, Cardinality(completed))]

\* "b / max(a, 1)" for the quotients a and b: max(a, 1) is a unless a < 1
FlooredRatio(b, a) ==
    IF a.num >= a.den
    THEN Ratio(b.num * a.den, b.den * a.num)
    ELSE Ratio(b.num, b.den)

\* "b / max(a, 1) if a > 0 else 0"
GuardedRatio(b, a) == IF a.num > 0 THEN FlooredRatio(b, a) ELSE Ratio(0, 1)

\* the "comparison" parts of compare_job_performance behind its fetches;
\* the exception of get_executor_summary leaves it
JobPerformance(app1, app2) ==
    LET exec1 == ExecutorSummaryOf(app1.executors)
        exec2 == ExecutorSummaryOf(app2.executors)
        job_stats1 == CalcJobStats(app1.jobs)
        job_stats2 == CalcJobStats(app2.jobs)
        Whole(x) == Ratio(x, 1)
    IN  IF exec1.kind = "raised" THEN exec1
        ELSE IF exec2.kind = "raised" THEN exec2
        ELSE ToolReturned(
          [executor_count_ratio |->
              FlooredRatio(Whole(exec2.value.total_executors),
                           Whole(exec1.value.total_executors)),
           memory_usage_ratio |->
              FlooredRatio(Whole(exec2.value.memory_used),
                           Whole(exec1.value.memory_used)),
           task_completion_ratio |->
              FlooredRatio(Whole(exec2.value.m["completed_tasks"]),
                           Whole(exec1.value.m["completed_tasks"])),
           gc_time_ratio |->
              FlooredRatio(Whole(exec2.value.m["total_gc_time"]),
                           Whole(exec1.value.m["total_gc_time"])),
           job_count_ratio |->
              FlooredRatio(Whole(job_stats2.count), Whole(job_stats1.count)),
           avg_duration_ratio |->
              GuardedRatio(job_stats2.avg_duration, job_stats1.avg_duration),
           total_duration_ratio |->
              GuardedRatio(Whole(job_stats2.total_duration),
                           Whole(job_stats1.total_duration))])

\* compare_job_performance when its k-th fetch has the outcome o. The
\* fetches are, in order: the two applications, the executors of the first
\* application (summed at once), the executors of the second (summed at
\* once), the jobs of the first, the jobs of the second. A summary that
\* raises ends the call before the later fetches are made.
CompareJobPerformance(o, k) ==
    LET exec1 == ExecutorSummaryOf(t_in.app1.executors)
        exec2 == ExecutorSummaryOf(t_in.app2.executors)
        made == /\ (k >= 4 => exec1.kind = "returned")
                /\ (k >= 5 => exec2.kind = "returned")
    IN  ToolCall("compare_job_performance", IF made THEN o ELSE "ok",
                 JobPerformance(t_in.app1, t_in.app2))

----------------------------------------------------------------------------
(* compare_sql_execution_plans *)

\* get_sql_list: "length: int = 20"
DefaultLength == 20

\* the SQL executions of an application, as many as one default page holds
\* and MaxBeyondPage more: all of the same duration (or without one) but
\* for at most one longer execution
SqlCollections ==
    UNION { { [i \in 1..n |-> [id |-> i, status |-> "COMPLETED",
                               duration |-> IF i = long
                                            THEN [has |-> TRUE, ms |-> 2]
                                            ELSE rest]] :
                long \in 0..n,
                rest \in {[has |-> FALSE, ms |-> 0], [has |-> TRUE, ms |-> 1]} } :
            n \in 0..(DefaultLength + MaxBeyondPage) }

\* "max(sql_execs, key=lambda x: x.duration or 0)": the first execution
\* that no other exceeds; its position
LongestExecution(execs) ==
    CHOOSE i \in 1..Len(execs) :
        /\ \A j \in 1..Len(execs) : execs[j].duration.ms <= execs[i].duration.ms
        /\ \A j \in 1..(i - 1) : execs[j].duration.ms < execs[i].duration.ms

\* compare_sql_execution_plans behind the two get_sql_list fetches, which
\* ask for the default page; fetched lists the get_sql_execution calls
SqlPlanComparison(coll1, coll2, execution_id1, execution_id2) ==
    LET sql_execs1 == ServerPage(coll1, 0, DefaultLength)
        sql_execs2 == ServerPage(coll2, 0, DefaultLength)
        id1 == IF ~execution_id1.has /\ sql_execs1 # <<>>
               THEN Present(sql_execs1[LongestExecution(sql_execs1)].id)
               ELSE execution_id1
        id2 == IF ~execution_id2.has /\ sql_execs2 # <<>>
               THEN Present(sql_execs2[LongestExecution(sql_execs2)].id)
               ELSE execution_id2
    IN  IF ~id1.has \/ ~id2.has
        THEN ToolReturned([error |-> TRUE, fetched |-> <<>>,
                           app1_sql_count |-> Len(sql_execs1),
                           app2_sql_count |-> Len(sql_execs2)])
        ELSE IF id1.v \notin 1..Len(coll1) \/ id2.v \notin 1..Len(coll2)
        THEN ToolRaised("HTTPError")
        ELSE ToolReturned([error |-> FALSE, fetched |-> <<id1.v, id2.v>>,
                           execution_id1 |-> id1.v, execution_id2 |-> id2.v,
                           duration1 |-> coll1[id1.v].duration,
                           duration2 |-> coll2[id2.v].duration,
                           duration_ratio |->
                               Ratio(coll2[id2.v].duration.ms,
                                     Max(coll1[id1.v].duration.ms, 1))])

CompareSqlExecutionPlans(o) ==
    ToolCall("compare_sql_execution_plans", o,
             SqlPlanComparison(t_in.coll1, t_in.coll2,
                               t_in.execution_id1, t_in.execution_id2))

----------------------------------------------------------------------------
(* get_resource_usage_timeline *)

\* the executors and stages of an application with the fields the timeline
\* reads: the times are Optional, and so are total_cores and max_memory
\* (given in MiB); a stage has completed, is running or was not submitted
TimelineInputs ==
    [executors :
        UNION {{ [i \in 1..n |-> [id |-> i, add_time |-> f[i][1],
                                  remove_time |-> f[i][2],
                                  total_cores |-> f[i][3].cores,
                                  max_memory  |-> f[i][3].memory]] :
                   f \in [1..n -> Optional({1, 2}) \X Optional({1}) \X
                                  {[cores |-> Present(1), memory |-> Absent],
                                   [cores |-> Present(2), memory |-> Present(1)],
                                   [cores |-> Absent, memory |-> Present(1)]}] } :
               n \in 0..MaxExecutors},
     stages :
        UNION {{ [i \in 1..n |-> [id |-> i, submission_time |-> f[i][1],
                                  completion_time |-> f[i][2]]] :
                   f \in [1..n -> {<<Present(1), Present(2)>>,
                                   <<Present(1), Absent>>,
                                   <<Absent, Absent>>}] } :
               n \in 0..MaxStages}]

\* a timeline event; cores and memory_mb are the payload of executor_add
TimelineEvent(type, timestamp, id, cores, memory_mb) ==
    [type |-> type, timestamp |-> timestamp, id |-> id, cores |-> cores,
     memory_mb |-> memory_mb]

\* the events one loop appends: for every item its first event if the
\* first time is there, then its second event if the second time is there
RECURSIVE EventsOf(_, _, _, _, _)
EventsOf(items, first, first_time, second, second_time) ==
    IF items = <<>> THEN <<>>
    ELSE LET x == Head(items)
             payload == first = "executor_add"
         IN  (IF x[first_time].has
              THEN <<TimelineEvent(first, x[first_time].v, x.id,
                                   IF payload THEN x.total_cores ELSE Absent,
                                   IF payload /\ x.max_memory.has
                                   THEN x.max_memory.v ELSE 0)>>
              ELSE <<>>)
             \o (IF x[second_time].has
                 THEN <<TimelineEvent(second, x[second_time].v, x.id, Absent, 0)>>
                 ELSE <<>>)
             \o EventsOf(Tail(items), first, first_time, second, second_time)

\* mutation: the events stay in the order they were appended
SortedEvents_Unsorted(events) == events

\* timeline_events.sort(key=lambda x: x["timestamp"]): stable and
\* ascending, which is descending in the negated timestamp
SortedEvents(events) ==
    LET sorted == SortKeyedDesc([i \in 1..Len(events) |->
                                    <<0 - events[i].timestamp, events[i]>>])
    IN  [i \in 1..Len(sorted) |-> sorted[i][2]]

\* the replay loop from event k on, with the three running totals
RECURSIVE ReplayFrom(_, _, _, _, _)
ReplayFrom(events, k, active_executors, total_cores, total_memory) ==
    IF k > Len(events) THEN <<>>
    ELSE LET e == events[k]
             a == CASE e.type = "executor_add"    -> active_executors + 1
                    [] e.type = "executor_remove" -> active_executors - 1
                    [] OTHER                      -> active_executors
             c == IF e.type = "executor_add" THEN total_cores + e.cores.v
                  ELSE total_cores
             m == IF e.type = "executor_add" THEN total_memory + e.memory_mb
                  ELSE total_memory
         IN  <<[timestamp |-> e.timestamp, active_executors |-> a,
                total_cores |-> c, total_memory_mb |-> m, event |-> e]>>
             \o ReplayFrom(events, k + 1, a, c, m)

\* max(values + [0])
RECURSIVE MaxOrZero(_)
MaxOrZero(values) ==
    IF values = <<>> THEN 0 ELSE Max(Head(values), MaxOrZero(Tail(values)))

\* get_resource_usage_timeline behind its fetches; adding the cores of an
\* executor_add event that has none raises TypeError
ResourceTimeline(executors, stages) ==
    LET timeline_events ==
            SortedEvents(
                EventsOf(executors, "executor_add", "add_time",
                         "executor_remove", "remove_time")
                \o EventsOf(stages, "stage_start", "submission_time",
                            "stage_end", "completion_time"))
        resource_timeline == ReplayFrom(timeline_events, 1, 0, 0, 0)
        count(type) ==
            Cardinality({k \in 1..Len(timeline_events) : timeline_events[k].type = type})
    IN  IF \E k \in 1..Len(timeline_events) :
              timeline_events[k].type = "executor_add" /\ ~timeline_events[k].cores.has
        THEN ToolRaised("TypeError")
        ELSE ToolReturned(
               [timeline |-> resource_timeline,
                total_events       |-> Len(timeline_events),
                executor_additions |-> count("executor_add"),
                executor_removals  |-> count("executor_remove"),
                stage_executions   |-> count("stage_start"),
                peak_executors |->
                    MaxOrZero([k \in 1..Len(resource_timeline) |->
                                  resource_timeline[k].active_executors]),
                peak_cores |->
                    MaxOrZero([k \in 1..Len(resource_timeline) |->
                                  resource_timeline[k].total_cores])])

GetResourceUsageTimeline(o) ==
    ToolCall("get_resource_usage_timeline", o,
             ResourceTimeline(t_in.executors, t_in.stages))

----------------------------------------------------------------------------
(* get_client_or_default *)

\* get_client_or_default: clients maps the configured server names to
\* clients, default_client is a client or absent, server_name is a string
\* or None. "if server_name" holds for a string that is not empty, and
\* "if client" for every client that clients.get finds.
GetClientOrDefault(clients, default_client, server_name) ==
    IF /\ server_name # None
       /\ server_name # ""
       /\ server_name \in DOMAIN clients
    THEN ToolReturned(clients[server_name])
    ELSE IF default_client.has
         THEN ToolReturned(default_client.v)
         ELSE ToolRaised("ValueError")

\* a tool resolves its client
ResolveClient ==
    /\ t_tool = "ready"
    /\ t_tool' = "get_client_or_default"
    /\ t_out' = GetClientOrDefault(t_in.clients, t_in.default_client,
                                   t_in.server_name)
    /\ UNCHANGED t_in
    /\ UNCHANGED nonToolVars

----------------------------------------------------------------------------
(* get_stage *)

\* an attempt that is not the one max(stages, key=attempt_id) returns
SelectLatest_First(stages) == 1

\* max(stages, key=lambda s: s.attempt_id): the position of the first
\* record whose attempt_id no other record exceeds
SelectLatest(stages) ==
    CHOOSE i \in DOMAIN stages :
        /\ \A j \in DOMAIN stages : stages[j].attempt_id <= stages[i].attempt_id
        /\ \A j \in 1..(i - 1) : stages[j].attempt_id < stages[i].attempt_id

\* get_stage against a server that holds the given attempts of the stage.
\* An attempt's record carries task_metrics_distributions only when
\* summaries are asked for and the server then includes them; a fetch of an
\* attempt the server does not hold is answered with an HTTP error. The
\* outcome keeps the record returned and the client calls made.
StageGot(attempts, attempt_id, with_summaries) ==
    LET RecordOf(a) ==
            [attempt_id |-> a.attempt_id,
             task_metrics_distributions |->
                IF with_summaries /\ a.distributions THEN "inline" ELSE None]
        ClientCall(op, id) == [op |-> op, attempt_id |-> id]
        first == IF attempt_id.has
                 THEN ClientCall("get_stage_attempt", attempt_id)
                 ELSE ClientCall("list_stage_attempts", Absent)
        Finish(stage_data) ==
            IF with_summaries /\ stage_data.task_metrics_distributions = None
            THEN ToolReturned(
                   [stage |-> [stage_data EXCEPT
                                 !.task_metrics_distributions = "task_summary"],
                    calls |-> <<first,
                                ClientCall("get_stage_task_summary",
                                           Present(stage_data.attempt_id))>>])
            ELSE ToolReturned([stage |-> stage_data, calls |-> <<first>>])
    IN  IF attempt_id.has
        THEN IF \E i \in DOMAIN attempts :
                    attempts[i].attempt_id = attempt_id.v
             THEN Finish(RecordOf(attempts[CHOOSE i \in DOMAIN attempts :
                                    attempts[i].attempt_id = attempt_id.v]))
             ELSE ToolRaised("HTTPError")
        ELSE IF attempts = <<>>
             THEN ToolRaised("ValueError")
             ELSE Finish(RecordOf(attempts[SelectLatest(attempts)]))

GetStage(o) ==
    ToolCall("get_stage", o,
             StageGot(t_in.attempts, t_in.attempt_id, t_in.with_summaries))

----------------------------------------------------------------------------
(* parse_datetime *)

\* the parse_datetime validator of the typed records, on a timestamp the
\* server sent as a number of milliseconds since the epoch or as a string
\* "<date>T<time>.<millis>GMT", the date and time counted here in seconds
\* since the epoch. datetime.fromtimestamp gives a naive datetime showing
\* the local wall clock, utc_offset seconds ahead of UTC; strptime with %z
\* gives an aware datetime at UTC. wall_ms is what the datetime's own
\* fields show, in milliseconds; any other value is returned as it came.
ParseDatetime(value, utc_offset) ==
    IF value.type = "int"
    THEN [aware |-> FALSE, wall_ms |-> value.ms + utc_offset * 1000]
    ELSE IF value.type = "str" /\ value.suffix = "GMT"
         THEN [aware |-> TRUE,
               wall_ms |-> value.second * 1000 + value.millis]
         ELSE value

\* a record is validated whose start_time came in the string form and whose
\* end_time came as the number of milliseconds of the same instant
ValidateTimestamps ==
    /\ t_tool = "ready"
    /\ t_tool' = "parse_datetime"
    /\ t_out' = ToolReturned(
          [start_time |->
              ParseDatetime([type |-> "str", second |-> t_in.second,
                             millis |-> t_in.millis, suffix |-> "GMT"],
                            t_in.utc_offset),
           end_time |->
              ParseDatetime([type |-> "int",
                             ms |-> t_in.second * 1000 + t_in.millis],
                            t_in.utc_offset)])
    /\ UNCHANGED t_in
    /\ UNCHANGED nonToolVars

----------------------------------------------------------------------------
(* compare_job_environments *)

\* props_to_dict: the dictionary of a list of (key, value) pairs; of a key
\* given twice the later value stays. A list that is absent gives the same
\* empty dictionary as the empty list.
PropsToDict(props) ==
    [k \in {props[i][1] : i \in DOMAIN props} |->
        props[CHOOSE i \in DOMAIN props :
                /\ props[i][1] = k
                /\ \A j \in (i + 1)..Len(props) : props[j][1] # k][2]]

\* a comparison that files the keys both applications have under "common"
\* whatever their values
SparkComparison_AllCommon(spark_props1, spark_props2) ==
    LET both == DOMAIN spark_props1 \cap DOMAIN spark_props2
    IN  [common |-> [k \in both |->
                       [app1 |-> spark_props1[k], app2 |-> spark_props2[k]]],
         different |-> [k \in {} |-> [app1 |-> "", app2 |-> ""]],
         only_in_app1 |-> [k \in DOMAIN spark_props1 \ DOMAIN spark_props2 |->
                             spark_props1[k]],
         only_in_app2 |-> [k \in DOMAIN spark_props2 \ DOMAIN spark_props1 |->
                             spark_props2[k]]]

\* the "spark_properties" entry of the comparison, from the two dictionaries
SparkComparison(spark_props1, spark_props2) ==
    [common |->
        [k \in {k \in DOMAIN spark_props1 :
                  k \in DOMAIN spark_props2 /\ spark_props1[k] = spark_props2[k]} |->
            [app1 |-> spark_props1[k], app2 |-> spark_props2[k]]],
     different |->
        [k \in {k \in DOMAIN spark_props1 :
                  k \in DOMAIN spark_props2 /\ spark_props1[k] # spark_props2[k]} |->
            [app1 |-> spark_props1[k], app2 |-> spark_props2[k]]],
     only_in_app1 |->
        [k \in {k \in DOMAIN spark_props1 : k \notin DOMAIN spark_props2} |->
            spark_props1[k]],
     only_in_app2 |->
        [k \in {k \in DOMAIN spark_props2 : k \notin DOMAIN spark_props1} |->
            spark_props2[k]]]

\* a comparison that reports every system property that differs
SystemComparison_EveryKey(system_props1, system_props2) ==
    LET Get(dict, k, default) == IF k \in DOMAIN dict THEN dict[k] ELSE default
    IN  [key_differences |->
            [k \in {k \in DOMAIN system_props1 \cup DOMAIN system_props2 :
                      Get(system_props1, k, None) # Get(system_props2, k, None)} |->
                [app1 |-> Get(system_props1, k, "NOT_SET"),
                 app2 |-> Get(system_props2, k, "NOT_SET")]]]

\* the "system_properties" entry of the comparison: its only entry is
\* "key_differences", made of those of six fixed keys on which
\* system_props1.get(k) and system_props2.get(k) differ
SystemComparison(system_props1, system_props2) ==
    LET Get(dict, k, default) == IF k \in DOMAIN dict THEN dict[k] ELSE default
    IN  [key_differences |->
            [k \in {k \in {"java.version", "java.runtime.version", "os.name",
                           "os.version", "user.timezone", "file.encoding"} :
                      Get(system_props1, k, None) # Get(system_props2, k, None)} |->
                [app1 |-> Get(system_props1, k, "NOT_SET"),
                 app2 |-> Get(system_props2, k, "NOT_SET")]]]

\* compare_job_environments; its outcome keeps the two property comparisons
CompareJobEnvironments(o) ==
    ToolCall("compare_job_environments", o,
             ToolReturned(
               [spark_properties |->
                   SparkComparison(PropsToDict(t_in.env1.spark_properties),
                                   PropsToDict(t_in.env2.spark_properties)),
                system_properties |->
                   SystemComparison(PropsToDict(t_in.env1.system_properties),
                                    PropsToDict(t_in.env2.system_properties))]))

----------------------------------------------------------------------------
(* Specifications *)

InitRest ==
    /\ client \in {NewClient(cfg) : cfg \in ServerConfigs}
    /\ rpc = "idle"
    /\ rurl = <<>>
    /\ rparams = None
    /\ httpLog = <<>>
    /\ respLog = <<>>
    /\ outcome = NoOutcome
    /\ UrlOff /\ PageOff /\ EmrOff /\ ToolOff

NextRest ==
    \/ \E jar \in CookieJars : InstallSession(jar)
    \/ \E endpoint \in Endpoints, params \in ParamSets : GetStart(endpoint, params)
    \/ \E o \in ServerOutcomes : FirstResponse(o)
    \/ \E o \in ServerOutcomes : SecondResponse(o)
    \/ \E o \in ServerOutcomes : GetMetricsPrometheus(o)

SpecRest == InitRest /\ [][NextRest]_vars

InitUrl ==
    /\ mu_pc = "input"
    /\ mu_url \in UrlInputs
    /\ mu_result = <<>>
    /\ RestOff /\ PageOff /\ EmrOff /\ ToolOff

\* _modify_url on arbitrary URLs, together with the client that uses it
InitUrlOrRest == InitUrl \/ InitRest

NextUrl == ApplyModifyUrl \/ NextRest

SpecUrl == InitUrlOrRest /\ [][NextUrl]_vars

InitPage ==
    /\ pg_pc = "loop"
    /\ pg_args \in [page_size : 1..MaxPageSize, top_n : 0..MaxTopN,
                    include_running : BOOLEAN]
    /\ pg_coll \in Collections
    /\ pg_offset = 0
    /\ pg_all = <<>>
    /\ pg_calls = <<>>
    /\ pg_result = [kind |-> "none", value |-> <<>>]
    /\ UrlOff /\ RestOff /\ EmrOff /\ ToolOff

NextPage == FetchPage \/ FetchFails \/ SortAndReturn

SpecPage == InitPage /\ [][NextPage]_vars

InitEmr ==
    /\ emr = NewEmrClient
    /\ e_pc = "idle"
    /\ e_after = "idle"
    /\ e_calls = <<>>
    /\ e_error = None
    /\ e_last = NoLastOp
    /\ UrlOff /\ RestOff /\ PageOff /\ ToolOff

NextEmr ==
    \/ InitializeStart
    \/ \E o \in CreateOutcomes : InitializeCreate(o)
    \/ \E o \in DescribeOutcomes : InitializeDescribe(o)
    \/ \E o \in PresignOutcomes : InitializePresign(o)
    \/ \E o \in SessionOutcomes : InitializeSession(o)
    \/ \E o \in CreateOutcomes : DirectCreate(o)
    \/ \E o \in DescribeOutcomes : DirectDescribe(o)
    \/ \E o \in PresignOutcomes : DirectPresign(o)
    \/ \E o \in SessionOutcomes : DirectSession(o)

SpecEmr == InitEmr /\ [][NextEmr]_vars

InitTool(inputs) ==
    /\ t_tool = "ready"
    /\ t_in \in inputs
    /\ t_out = NoToolResult
    /\ UrlOff /\ RestOff /\ PageOff /\ EmrOff

\* the application's jobs, for list_slowest_jobs, or its stages, for
\* list_slowest_stages
InitSlowest ==
    InitTool([kind : {"jobs"}, items : StatusLists({"RUNNING", "SUCCEEDED"}),
              include_running : BOOLEAN, n : 0..MaxTopN]
             \cup
             [kind : {"stages"}, items : StatusLists({"ACTIVE", "COMPLETE"}),
              include_running : BOOLEAN, n : 0..MaxTopN])

NextSlowest ==
    \/ \E o \in FetchOutcomes : ListSlowestJobs(o)
    \/ \E o \in FetchOutcomes : ListSlowestStages(o)

SpecSlowest == InitSlowest /\ [][NextSlowest]_vars

InitExec == InitTool([executors : ExecutorLists(SummaryExecutors)])

NextExec == \E o \in FetchOutcomes : GetExecutorSummary(o)

SpecExec == InitExec /\ [][NextExec]_vars

InitBottlenecks == InitTool(BottleneckInputs)

NextBottlenecks == \E o \in FetchOutcomes : GetJobBottlenecks(o)

SpecBottlenecks == InitBottlenecks /\ [][NextBottlenecks]_vars

InitCompare == InitTool([app1 : ComparedApps, app2 : ComparedApps])

\* every fetch succeeds, or one of the six fails
NextCompare ==
    \E o \in FetchOutcomes :
        \E k \in IF o = "ok" THEN {1} ELSE 1..6 : CompareJobPerformance(o, k)

SpecCompare == InitCompare /\ [][NextCompare]_vars

InitSqlPlans ==
    InitTool([coll1 : SqlCollections,
              coll2 : {c \in SqlCollections : Len(c) <= 1},
              execution_id1 : Optional({1}), execution_id2 : Optional({1})])

NextSqlPlans == \E o \in FetchOutcomes : CompareSqlExecutionPlans(o)

SpecSqlPlans == InitSqlPlans /\ [][NextSqlPlans]_vars

InitTimeline == InitTool(TimelineInputs)

NextTimeline == \E o \in FetchOutcomes : GetResourceUsageTimeline(o)

SpecTimeline == InitTimeline /\ [][NextTimeline]_vars

\* app_lifespan builds one client per configured server, here the k-th
\* server's client is k, and keeps as default the client of the last server
\* whose configuration says default; the caller names any server or none
InitClients ==
    InitTool(
      { [clients |-> [name \in {servers[i].name : i \in DOMAIN servers} |->
                        CHOOSE i \in DOMAIN servers : servers[i].name = name],
         default_client |->
            IF \E i \in DOMAIN servers : servers[i].default
            THEN Present(CHOOSE i \in DOMAIN servers :
                           /\ servers[i].default
                           /\ \A j \in DOMAIN servers :
                                servers[j].default => j <= i)
            ELSE Absent,
         server_name |-> server_name] :
          servers \in
            { s \in UNION {[1..n -> [name : {"", "local", "emr"},
                                     default : BOOLEAN]] : n \in 0..MaxServers} :
                \A i, j \in DOMAIN s : s[i].name = s[j].name => i = j },
          server_name \in {None, "", "local", "emr"} })

NextClients == ResolveClient

SpecClients == InitClients /\ [][NextClients]_vars

\* the server holds up to MaxAttempts attempts of the stage, with distinct
\* attempt ids in any order
InitStage ==
    InitTool([attempts :
                { s \in UNION {[1..n -> [attempt_id : 0..MaxAttempts,
                                         distributions : BOOLEAN]] :
                               n \in 0..MaxAttempts} :
                    \A i, j \in DOMAIN s :
                        s[i].attempt_id = s[j].attempt_id => i = j },
              attempt_id : Optional(0..MaxAttempts),
              with_summaries : BOOLEAN])

NextStage == \E o \in FetchOutcomes : GetStage(o)

SpecStage == InitStage /\ [][NextStage]_vars

\* an instant, and the zone of the machine: UTC or an hour to either side
InitTime ==
    InitTool([second : 0..MaxSecond, millis : {0, 500, 789},
              utc_offset : {-3600, 0, 3600}])

NextTime == ValidateTimestamps

SpecTime == InitTime /\ [][NextTime]_vars

\* the environments of the two applications: up to MaxProps Spark
\* properties each, a key possibly twice, and at most one system property,
\* one of the six keys or another
InitEnv ==
    LET Environments ==
          [spark_properties :
              UNION {[1..n -> {"spark.app.name", "spark.executor.memory"}
                                \X {"1g", "2g"}] : n \in 0..MaxProps},
           system_properties :
              {<<>>, << <<"os.name", "Linux">> >>, << <<"os.name", "Mac">> >>,
               << <<"user.dir", "Linux">> >>}]
    IN  InitTool([env1 : Environments, env2 : Environments])

NextEnv == \E o \in FetchOutcomes : CompareJobEnvironments(o)

SpecEnv == InitEnv /\ [][NextEnv]_vars

----------------------------------------------------------------------------
(* Claims about the REST client *)

\* C1: one call of _get issues at most two HTTP requests, and the second one
\* only after the first one was answered with HTTP 404 for a URL that
\* contains "/applications/".
C1_AtMostTwoRequests ==
    /\ Len(httpLog) <= 2
    /\ Len(respLog) <= Len(httpLog)
    /\ Len(httpLog) <= Len(respLog) + 1
    /\ Len(httpLog) = 2 =>
          /\ respLog[1].kind = "http_error"
          /\ respLog[1].status = 404
          /\ \E i \in 1..(Len(httpLog[1].url) - 2) :
                SubSeq(httpLog[1].url, i, i + 2) = <<"/", "applications", "/">>

\* both requests of a _get were sent and both failed
C1_Witness ==
    /\ rpc = "raised"
    /\ Len(httpLog) = 2
    /\ respLog[2].kind = "http_error"

\* the ways to read u as <prefix>/applications/<appId>/<suffix>, each given
\* by the position of the slash before "applications" and the position of
\* the slash that ends appId; appId and suffix are not empty
UrlDecompositions(u) ==
    {d \in (1..Len(u)) \X (1..Len(u)) :
        /\ d[1] + 2 <= Len(u)
        /\ SubSeq(u, d[1], d[1] + 2) = <<"/", "applications", "/">>
        /\ d[2] > d[1] + 3
        /\ d[2] < Len(u)
        /\ u[d[2]] = "/"
        /\ \A k \in (d[1] + 3)..(d[2] - 1) : u[k] # "/"}

SuffixStartsWithDigitsSlash(s) ==
    \E d \in 2..Len(s) :
        /\ s[d] = "/"
        /\ \A k \in 1..(d - 1) : s[k] \in {"1", "2"}

\* the rewrite as the claim states it, at the leftmost "/applications/" that
\* has an application id and a suffix behind it
ExpectedRewrite(u) ==
    IF UrlDecompositions(u) = {} THEN u
    ELSE LET d == CHOOSE x \in UrlDecompositions(u) :
                     \A y \in UrlDecompositions(u) : x[1] <= y[1]
             suffix == SubSeq(u, d[2] + 1, Len(u))
         IN  IF SuffixStartsWithDigitsSlash(suffix) THEN u
             ELSE SubSeq(u, 1, d[2]) \o <<"1", "/">> \o suffix

\* C2: _modify_url maps <prefix>/applications/<appId>/<suffix> to
\* <prefix>/applications/<appId>/1/<suffix> exactly when <suffix> does not
\* start with digits and a slash, and returns every other URL unchanged; the
\* fallback request goes to the rewritten URL with the parameters of the
\* first request.
C2_RewriteAndFallbackTarget ==
    /\ mu_pc = "done" => mu_result = ExpectedRewrite(mu_url)
    /\ Len(httpLog) = 2 =>
          /\ httpLog[2].url = ExpectedRewrite(httpLog[1].url)
          /\ httpLog[2].params = httpLog[1].params

\* a URL with a two-digit first suffix segment that is no attempt segment
\* (no slash behind it) has been rewritten
C2_Witness ==
    /\ mu_pc = "done"
    /\ mu_url = <<"/", "applications", "/", "x", "/", "2", "2">>
    /\ mu_result = <<"/", "applications", "/", "x", "/", "1", "/", "2", "2">>

\* the error of request n as the caller of _get would see it unmodified
SurfacedUnmodified(n) ==
    /\ outcome.error = ErrorOf(respLog[n], n)
    /\ outcome.cause = NoError

\* C3 as stated: a failure without fallback surfaces the first request's
\* error unmodified; a failed fallback surfaces the retry's error with the
\* original 404 error as its cause; a successful fallback returns the
\* retry's body.  (Failures of the kinds the claim names: HTTP status,
\* connection error, timeout.)
C3_RetryErrorHasCause ==
    /\ (rpc = "raised" /\ Len(httpLog) = 1 /\ respLog[1].kind # "bad_json") =>
          SurfacedUnmodified(1) /\ outcome.context = NoError
    /\ (rpc = "raised" /\ Len(httpLog) = 2 /\ respLog[2].kind # "bad_json") =>
          /\ outcome.error = ErrorOf(respLog[2], 2)
          /\ outcome.cause = ErrorOf(respLog[1], 1)
    /\ (rpc = "returned" /\ Len(httpLog) = 2) =>
          outcome.body = respLog[2].body /\ outcome.error = NoError

\* C3, amended: as above, but the original 404 error is the cause of the
\* retry's error only when the retry failed with an HTTP error status; when
\* the retry failed with a connection error or a timeout, the retry's error
\* surfaces with the original 404 error as its context and without a cause.
C3_RetryErrorChained ==
    /\ (rpc = "raised" /\ Len(httpLog) = 1 /\ respLog[1].kind # "bad_json") =>
          SurfacedUnmodified(1) /\ outcome.context = NoError
    /\ (rpc = "raised" /\ Len(httpLog) = 2 /\ respLog[2].kind # "bad_json") =>
          /\ outcome.error = ErrorOf(respLog[2], 2)
          /\ outcome.context = ErrorOf(respLog[1], 1)
          /\ outcome.cause =
                IF respLog[2].kind = "http_error"
                THEN ErrorOf(respLog[1], 1) ELSE NoError
    /\ (rpc = "returned" /\ Len(httpLog) = 2) =>
          outcome.body = respLog[2].body /\ outcome.error = NoError

\* the fallback request was made and failed with a connection error
C3_Witness ==
    /\ rpc = "raised"
    /\ Len(httpLog) = 2
    /\ respLog[2].kind = "connection_error"
    /\ outcome.error.request = 2

\* C5: every request carries at most one of {basic credentials, bearer
\* token}; with username, password and token configured a request of
\* _make_request carries the bearer token and no basic credentials.
C5_OneCredentialPerRequest ==
    \A i \in 1..Len(httpLog) :
        /\ ~(httpLog[i].bearer /\ httpLog[i].basic)
        /\ (/\ client.config.username
            /\ client.config.password
            /\ client.config.token
            /\ rurl # MetricsUrl(client))
           => (httpLog[i].bearer /\ ~httpLog[i].basic)

\* C10: with the bootstrap's session installed on the client, every request
\* of the client, first or fallback, goes through that session and carries
\* its cookie jar.
C10_RequestsUseSession ==
    client.session.id # None =>
        \A i \in 1..Len(httpLog) :
            /\ httpLog[i].via = client.session.id
            /\ httpLog[i].cookies = client.session.cookies

\* a first and a fallback request were sent with the session installed
C10_Witness ==
    /\ client.session.id # None
    /\ Len(httpLog) = 2
    /\ httpLog[2].via = "emr_session"

----------------------------------------------------------------------------
(* Claims about list_slowest_sql_queries *)

\* C4: the pages are fetched at offsets 0, p, 2p, ... with length p and the
\* loop stops after the first page that has fewer than p items: for a
\* collection of n executions it ends after exactly floor(n/p)+1 fetch
\* calls, and the accumulated sequence is the whole collection in server
\* order, each execution once.
C4_PaginationFetchesAll ==
    LET p == pg_args.page_size
        n == Len(pg_coll)
    IN  /\ \A i \in 1..Len(pg_calls) :
              pg_calls[i] = [offset |-> (i - 1) * p, length |-> p]
        /\ Len(pg_calls) <= (n \div p) + 1
        /\ pg_pc = "loop" => Len(pg_all) = Len(pg_calls) * p
        /\ (pg_pc \in {"fetched", "done"} \/ pg_result.kind = "TypeError") =>
              /\ Len(pg_calls) = (n \div p) + 1
              /\ pg_all = pg_coll
              /\ \A i \in 1..Len(pg_all) : pg_all[i].id = i

\* four executions fetched in pages of two took three calls, like 250
\* executions in pages of 100
C4_Witness ==
    /\ pg_pc = "done"
    /\ Len(pg_coll) = 4
    /\ pg_args.page_size = 2
    /\ Len(pg_calls) = 3
    /\ Len(pg_all) = 4

----------------------------------------------------------------------------
(* Claims about the session bootstrap *)

StepOrder == <<"create", "describe", "presign", "session">>

\* C6: in every execution of initialize() the remote steps run in the order
\* create, describe, presigned URL, session, each at most once, a step only
\* after the one before it succeeded; initialize() returns only after all
\* four succeeded, with the base URL and the session.
C6_StepsInOrder ==
    /\ Len(e_calls) <= 4
    /\ \A i \in 1..Len(e_calls) : e_calls[i].step = StepOrder[i]
    /\ \A i \in 1..(Len(e_calls) - 1) :
          /\ e_calls[i].ok
          /\ e_calls[i].step = "describe" => e_calls[i].detail = "ATTACHED"
    /\ e_pc = "done" =>
          /\ Len(e_calls) = 4
          /\ e_calls[4].ok
          /\ emr.persistent_ui_id # None
          /\ emr.presigned_url \in PresignedUrls
          /\ emr.base_url = [emr.presigned_url EXCEPT !.path = ""]
          /\ emr.headers = "browser"
          /\ emr.cookies \in CookieJars

\* initialize() has returned
C6_Witness ==
    /\ e_pc = "done"
    /\ Len(e_calls) = 4
    /\ e_calls[4].step = "session"

\* C7: when describe reports a status other than ATTACHED (PENDING, or none
\* at all), initialize() fails with an error, describe was called once, and
\* neither the presigned-URL step nor the session step runs.
C7_NotAttachedFails ==
    /\ Cardinality({i \in 1..Len(e_calls) : e_calls[i].step = "describe"}) <= 1
    /\ \A i \in 1..Len(e_calls) :
          (/\ e_calls[i].step = "describe"
           /\ e_calls[i].ok
           /\ e_calls[i].detail # "ATTACHED")
          => /\ i = Len(e_calls)
             /\ e_pc = "failed"
             /\ e_error = "ValueError"
             /\ \A j \in 1..Len(e_calls) :
                   e_calls[j].step \notin {"presign", "session"}

\* initialize() failed on status PENDING
C7_Witness ==
    /\ e_pc = "failed"
    /\ Len(e_calls) = 2
    /\ e_calls[2].step = "describe"
    /\ e_calls[2].detail = "PENDING"

\* C8: a failing step makes initialize() raise and no later step runs; the
\* next initialize() on the same client begins with create whatever the
\* failed attempt left behind, and never resumes at a later step.
C8_FailureAbortsRestartAtCreate ==
    /\ e_pc = "failed" =>
          /\ e_error # None
          /\ \A i \in 1..(Len(e_calls) - 1) : e_calls[i].ok
    /\ (e_pc = "create" /\ e_after = "failed") => e_calls = <<>>
    /\ e_pc \in {"describe", "presign", "session", "done"} =>
          /\ Len(e_calls) >= 1
          /\ e_calls[1].step = "create"
          /\ e_calls[Len(e_calls)].ok

\* a second initialize(), begun after a failed one that left a UI
\* identifier and a presigned URL behind, has made its create call
C8_Witness ==
    /\ e_after = "failed"
    /\ e_pc = "describe"
    /\ emr.presigned_url # NoUrl
    /\ Len(e_calls) = 1
    /\ e_calls[1].step = "create"

\* C9: describe_persistent_app_ui and get_presigned_url raise without a call
\* to the cloud API when there is no UI identifier, setup_http_session
\* raises without an HTTP request when there is no presigned URL, and such
\* a failure leaves the client's fields as they were.
C9_GuardedSteps ==
    /\ (/\ e_last.op \in {"describe_persistent_app_ui", "get_presigned_url"}
        /\ e_last.pre.persistent_ui_id = None)
       => /\ e_last.raised
          /\ e_last.error = "ValueError"
          /\ e_last.api = <<>>
          /\ emr = e_last.pre
    /\ (/\ e_last.op = "setup_http_session"
        /\ e_last.pre.presigned_url = NoUrl)
       => /\ e_last.raised
          /\ e_last.error = "ValueError"
          /\ e_last.api = <<>>
          /\ emr = e_last.pre

\* setup_http_session was called with a UI identifier but without a
\* presigned URL
C9_Witness ==
    /\ e_last.op = "setup_http_session"
    /\ e_last.pre.presigned_url = NoUrl
    /\ e_last.pre.persistent_ui_id # None
    /\ e_last.raised

\* C11: after get_presigned_url succeeds, base_url is the presigned URL's
\* scheme and host followed by the path "/shs", and the returned value and
\* the stored presigned_url are the URL the cloud API gave.
C11_BaseUrlHasShsPath ==
    [][\A o \in PresignOutcomes :
          LET r == PresignStep(emr, o)
          IN  ((DirectPresign(o) \/ InitializePresign(o)) /\ ~r.raised)
              => /\ r.value = o.url
                 /\ emr'.presigned_url = o.url
                 /\ emr'.base_url = [scheme |-> o.url.scheme,
                                     netloc |-> o.url.netloc,
                                     path   |-> "/shs"]]_vars

----------------------------------------------------------------------------
(* Claims about the analytics tools *)

\* the duration the ranking goes by: completion minus submission when both
\* are there, 0 otherwise
C12_Duration(x) ==
    IF x.completion_time.has /\ x.submission_time.has
    THEN x.completion_time.v - x.submission_time.v
    ELSE 0

C12_Eligible == {i \in 1..Len(t_in.items) : t_in.items[i].status # "RUNNING"}

\* C12: list_slowest_jobs and list_slowest_stages, called with
\* include_running false and N >= 0, return exactly min(N, eligible) items,
\* all of them fetched items whose status is not RUNNING, in non-increasing
\* duration with ties in fetch order, and no eligible item left out is
\* longer than a returned one.
C12_SlowestSelection ==
    (/\ t_tool \in {"list_slowest_jobs", "list_slowest_stages"}
     /\ t_out.kind = "returned"
     /\ ~t_in.include_running)
    => LET r == t_out.value
           chosen == {r[k].id : k \in 1..Len(r)}
       IN  /\ Len(r) = Min(t_in.n, Cardinality(C12_Eligible))
           /\ Cardinality(chosen) = Len(r)
           /\ chosen \subseteq C12_Eligible
           /\ \A k \in 1..Len(r) : r[k] = t_in.items[r[k].id]
           /\ \A k \in 1..(Len(r) - 1) :
                 \/ C12_Duration(r[k]) > C12_Duration(r[k + 1])
                 \/ /\ C12_Duration(r[k]) = C12_Duration(r[k + 1])
                    /\ r[k].id < r[k + 1].id
           /\ \A i \in C12_Eligible \ chosen : \A k \in 1..Len(r) :
                 C12_Duration(t_in.items[i]) <= C12_Duration(r[k])

\* a running item fetched first, two finished ones behind it with the
\* longer one last, and N = 1: the last item alone is returned
C12_Witness ==
    /\ t_tool = "list_slowest_jobs"
    /\ t_out.kind = "returned"
    /\ ~t_in.include_running
    /\ t_in.n = 1
    /\ Len(t_in.items) = 3
    /\ t_in.items[1].status = "RUNNING"
    /\ C12_Duration(t_in.items[2]) = 1
    /\ C12_Duration(t_in.items[3]) = 2
    /\ t_out.value = <<t_in.items[3]>>

\* C13: list_slowest_sql_queries counts an absent duration as 0: for every
\* collection, also one with absent durations, it does not fail on the
\* sort, and what it returns is at most top_n executions in non-increasing
\* duration.
C13_AbsentDurationCountsAsZero ==
    /\ pg_result.kind # "TypeError"
    /\ pg_result.kind = "returned" =>
          /\ Len(pg_result.value) <= pg_args.top_n
          /\ \A k \in 1..(Len(pg_result.value) - 1) :
                pg_result.value[k].duration.ms >= pg_result.value[k + 1].duration.ms

\* C14: for every list of executors get_executor_summary returns the sums
\* of the metrics over all executors with an absent value counted as 0,
\* the number of executors and the number of active ones; it does not fail
\* when an executor lacks a metric or its memory-metrics record.
C14_SummaryCountsAbsentAsZero ==
    (t_tool = "get_executor_summary" /\ t_out # ToolRaised("HTTPError"))
    => LET ex == t_in.executors
           N  == 1..Len(ex)
           mem(e, part) == IF e.memory_metrics.has THEN e.memory_metrics.v[part].v ELSE 0
       IN  /\ t_out.kind = "returned"
           /\ t_out.value.total_executors = Len(ex)
           /\ t_out.value.active_executors =
                 Cardinality({i \in N : ex[i].is_active.has /\ ex[i].is_active.v})
           /\ t_out.value.memory_used =
                 SumSeq([i \in N |-> mem(ex[i], "used_on_heap_storage_memory")
                                     + mem(ex[i], "used_off_heap_storage_memory")])
           /\ \A f \in MetricFields :
                 t_out.value.m[f] = SumSeq([i \in N |-> ex[i].m[f].v])

\* get_job_bottlenecks returned its report
C15_Reported == t_tool = "get_job_bottlenecks" /\ t_out.kind = "returned"

\* the stages that spilled more than 100 MiB
C15_Spilling ==
    {i \in 1..Len(t_in.stages) :
        /\ t_in.stages[i].memory_bytes_spilled.has
        /\ t_in.stages[i].memory_bytes_spilled.v > SpillThresholdMiB}

\* C15: the reported memory_spill_stages are the stages whose
\* memory_bytes_spilled is strictly above 100 MiB (not one at exactly
\* 100 MiB, at 50 MiB or without a value), ordered by spilled bytes
\* descending, cut to the first top_n.
C15_SpillStagesAboveThreshold ==
    C15_Reported =>
       LET r == t_out.value.memory_spill_stages
           reported == {r[k].stage_id : k \in 1..Len(r)}
       IN  /\ Len(r) = Min(t_in.top_n, Cardinality(C15_Spilling))
           /\ Cardinality(reported) = Len(r)
           /\ reported \subseteq C15_Spilling
           /\ \A k \in 1..Len(r) :
                 r[k].memory_spilled_mb = t_in.stages[r[k].stage_id].memory_bytes_spilled.v
           /\ \A k \in 1..(Len(r) - 1) :
                 r[k].memory_spilled_mb >= r[k + 1].memory_spilled_mb
           /\ \A i \in C15_Spilling \ reported : \A k \in 1..Len(r) :
                 t_in.stages[i].memory_bytes_spilled.v <= r[k].memory_spilled_mb

\* stages that spilled 150 MiB and exactly 100 MiB: only the first is
\* reported
C15_Witness ==
    /\ C15_Reported
    /\ t_in.top_n = 2
    /\ Len(t_in.stages) = 2
    /\ t_in.stages[1].memory_bytes_spilled = Present(SpillThresholdMiB)
    /\ t_in.stages[2].memory_bytes_spilled = Present(150)
    /\ Len(t_out.value.memory_spill_stages) = 1
    /\ t_out.value.memory_spill_stages[1].stage_id = 2

\* the sums over the executors that get_job_bottlenecks works with
C16_Total(f) ==
    SumSeq([i \in 1..Len(t_in.executors) |-> t_in.executors[i].m[f].v])

\* C16 as stated: gc_pressure is total_gc_time / max(total_duration, 1) for
\* every executor summary, it is 0 when total_duration is 0, and nothing is
\* divided by zero.
C16_GcPressureFormula ==
    C15_Reported =>
       LET g == t_out.value.gc_pressure_ratio
       IN  /\ g.den # 0
           /\ g.num * Max(C16_Total("total_duration"), 1)
                 = C16_Total("total_gc_time") * g.den
           /\ C16_Total("total_duration") = 0 => g.num = 0

\* C16, amended: gc_pressure is total_gc_time / total_duration when
\* total_duration is above 0, and 0 when total_duration is 0, whatever
\* total_gc_time is; nothing is divided by zero.
C16_GcPressureCases ==
    C15_Reported =>
       LET g == t_out.value.gc_pressure_ratio
       IN  /\ g.den # 0
           /\ C16_Total("total_duration") > 0 =>
                 g.num * C16_Total("total_duration")
                    = C16_Total("total_gc_time") * g.den
           /\ C16_Total("total_duration") = 0 => g.num = 0

\* executors with GC time but no task time: the pressure is 0
C16_Witness ==
    /\ C15_Reported
    /\ C16_Total("total_duration") = 0
    /\ C16_Total("total_gc_time") > 0
    /\ t_out.value.gc_pressure_ratio.num = 0

\* C17: the recommendations are, in this order and nothing else, a
\* high-priority memory entry iff gc_pressure > 0.10, a high-priority memory
\* entry iff some stage spilled more than 100 MiB (whatever top_n is), and
\* a medium-priority reliability entry iff the summed failed_tasks > 0.
C17_RecommendationRules ==
    C15_Reported =>
       LET g  == t_out.value.gc_pressure_ratio
           gc == IF 10 * g.num > g.den
                 THEN <<[type |-> "memory", priority |-> "high", issue |-> "gc_pressure"]>>
                 ELSE <<>>
           sp == IF C15_Spilling # {}
                 THEN <<[type |-> "memory", priority |-> "high", issue |-> "memory_spill"]>>
                 ELSE <<>>
           ft == IF C16_Total("failed_tasks") > 0
                 THEN <<[type |-> "reliability", priority |-> "medium", issue |-> "failed_tasks"]>>
                 ELSE <<>>
       IN  t_out.value.recommendations = gc \o sp \o ft

\* a pressure of exactly 0.10, a spilling stage with top_n = 0 and a failed
\* task: the spill and the reliability entries, no GC entry
C17_Witness ==
    /\ C15_Reported
    /\ t_in.top_n = 0
    /\ C15_Spilling # {}
    /\ 10 * C16_Total("total_gc_time") = C16_Total("total_duration")
    /\ C16_Total("total_duration") > 0
    /\ C16_Total("failed_tasks") > 0
    /\ Len(t_out.value.recommendations) = 2
    /\ t_out.value.recommendations[1].issue = "memory_spill"

\* what compare_job_performance compares, per ratio, as <<app1's value,
\* app2's value>>, each a quotient
C18_Compared ==
    LET total(app, f) ==
            SumSeq([i \in 1..Len(app.executors) |-> app.executors[i].m[f].v])
        memory(app) ==
            SumSeq([i \in 1..Len(app.executors) |->
                      app.executors[i].memory_metrics.v.used_on_heap_storage_memory.v
                      + app.executors[i].memory_metrics.v.used_off_heap_storage_memory.v])
        done(app) == {i \in 1..Len(app.jobs) : app.jobs[i].completion_time.has}
        duration(app) ==
            SumSeq([i \in 1..Len(app.jobs) |-> app.jobs[i].completion_time.v])
        both(V(_)) == <<V(t_in.app1), V(t_in.app2)>>
        count(app) == Ratio(Len(app.executors), 1)
        mem(app) == Ratio(memory(app), 1)
        tasks(app) == Ratio(total(app, "completed_tasks"), 1)
        gc(app) == Ratio(total(app, "total_gc_time"), 1)
        jobs(app) == Ratio(Len(app.jobs), 1)
        avg(app) == Ratio(duration(app), Max(Cardinality(done(app)), 1))
        sum(app) == Ratio(duration(app), 1)
    IN  [executor_count_ratio  |-> both(count),
         memory_usage_ratio    |-> both(mem),
         task_completion_ratio |-> both(tasks),
         gc_time_ratio         |-> both(gc),
         job_count_ratio       |-> both(jobs),
         avg_duration_ratio    |-> both(avg),
         total_duration_ratio  |-> both(sum)]

\* C18: every ratio of compare_job_performance is app2's value divided by
\* max(app1's value, 1), is 0 whenever app1's value is 0, and is computed
\* without a division by zero.
C18_RatiosFlooredAndZeroed ==
    (t_tool = "compare_job_performance" /\ t_out.kind = "returned")
    => \A k \in DOMAIN C18_Compared :
          LET a == C18_Compared[k][1]
              b == C18_Compared[k][2]
              r == t_out.value[k]
          IN  /\ r.den # 0
              /\ a.num = 0 => r.num = 0
              /\ a.num # 0 =>
                    IF a.num >= a.den
                    THEN r.num * b.den * a.num = b.num * a.den * r.den
                    ELSE r.num * b.den = b.num * r.den

\* C19: without an execution ID for the first application,
\* compare_sql_execution_plans compares the execution with the longest
\* duration among all SQL executions of that application (an absent
\* duration counted as 0), however many there are; when the application
\* has no SQL executions and no ID was given, it returns an error result
\* and fetches no execution detail.
C19_LongestOfAllExecutions ==
    (/\ t_tool = "compare_sql_execution_plans"
     /\ t_out.kind = "returned"
     /\ ~t_in.execution_id1.has)
    => IF t_in.coll1 = <<>>
       THEN t_out.value.error /\ t_out.value.fetched = <<>>
       ELSE ~t_out.value.error =>
               /\ t_out.value.execution_id1 \in 1..Len(t_in.coll1)
               /\ \A j \in 1..Len(t_in.coll1) :
                     t_in.coll1[j].duration.ms
                        <= t_in.coll1[t_out.value.execution_id1].duration.ms

\* get_resource_usage_timeline returned its timeline
C20_Returned == t_tool = "get_resource_usage_timeline" /\ t_out.kind = "returned"

\* the place of an event in the merged stream before the sort: the
\* executors' events in executor order, then the stages', and for one
\* executor or stage its add or start before its remove or end
C20_Appended(e) ==
    CASE e.type = "executor_add"    -> 2 * e.id - 1
      [] e.type = "executor_remove" -> 2 * e.id
      [] e.type = "stage_start"     -> 2 * Len(t_in.executors) + 2 * e.id - 1
      [] e.type = "stage_end"       -> 2 * Len(t_in.executors) + 2 * e.id

\* the time the data gives for an event
C20_TimeOf(e) ==
    CASE e.type = "executor_add"    -> t_in.executors[e.id].add_time
      [] e.type = "executor_remove" -> t_in.executors[e.id].remove_time
      [] e.type = "stage_start"     -> t_in.stages[e.id].submission_time
      [] e.type = "stage_end"       -> t_in.stages[e.id].completion_time

\* the replay: every time of the data is one entry, the entries are in
\* non-decreasing timestamp order with equal timestamps as appended, and at
\* every entry active_executors is adds minus removes so far, total_cores
\* and total_memory are the sums over the adds so far
C20_Replay ==
    LET tl == t_out.value.timeline
        upto(k, type) == {j \in 1..k : tl[j].event.type = type}
        adds(k) == [j \in 1..k |-> IF j \in upto(k, "executor_add") THEN 1 ELSE 0]
        cores(k) ==
            [j \in 1..k |-> IF j \in upto(k, "executor_add")
                            THEN t_in.executors[tl[j].event.id].total_cores.v ELSE 0]
        memory(k) ==
            [j \in 1..k |-> IF j \in upto(k, "executor_add")
                            THEN t_in.executors[tl[j].event.id].max_memory.v ELSE 0]
        times ==
            Cardinality({i \in 1..Len(t_in.executors) : t_in.executors[i].add_time.has})
            + Cardinality({i \in 1..Len(t_in.executors) : t_in.executors[i].remove_time.has})
            + Cardinality({i \in 1..Len(t_in.stages) : t_in.stages[i].submission_time.has})
            + Cardinality({i \in 1..Len(t_in.stages) : t_in.stages[i].completion_time.has})
    IN  /\ Len(tl) = times
        /\ Cardinality({C20_Appended(tl[k].event) : k \in 1..Len(tl)}) = Len(tl)
        /\ \A k \in 1..Len(tl) :
              /\ C20_TimeOf(tl[k].event) = Present(tl[k].timestamp)
              /\ tl[k].active_executors =
                    SumSeq(adds(k)) - Cardinality(upto(k, "executor_remove"))
              /\ tl[k].total_cores = SumSeq(cores(k))
              /\ tl[k].total_memory_mb = SumSeq(memory(k))
        /\ \A k \in 1..(Len(tl) - 1) :
              \/ tl[k].timestamp < tl[k + 1].timestamp
              \/ /\ tl[k].timestamp = tl[k + 1].timestamp
                 /\ C20_Appended(tl[k].event) < C20_Appended(tl[k + 1].event)

C21_FetchMade(k) ==
    /\ (k >= 4 => \A i \in DOMAIN t_in.app1.executors :
                      t_in.app1.executors[i].memory_metrics.has)
    /\ (k >= 5 => \A i \in DOMAIN t_in.app2.executors :
                      t_in.app2.executors[i].memory_metrics.has)

\* C21: when a fetch that compare_job_performance makes raises, whichever
\* of its six fetches it is, the tool raises that same error and returns
\* no result
C21_FetchErrorsPropagate ==
    [][\A o \in FetchOutcomes \ {"ok"}, k \in 1..6 :
          (CompareJobPerformance(o, k) /\ C21_FetchMade(k))
              => t_out' = ToolRaised(o)]_vars

\* C21 witness: the comparison of two applications that both have complete
\* executors and completed jobs ended with the error of a fetch
C21_Witness ==
    /\ t_tool = "compare_job_performance"
    /\ t_out = ToolRaised("HTTPError")
    /\ Len(t_in.app1.executors) > 0 /\ Len(t_in.app2.executors) > 0
    /\ C21_FetchMade(6)
    /\ Len(t_in.app1.jobs) > 0 /\ Len(t_in.app2.jobs) > 0

(* Claims about get_client_or_default *)

\* C22: get_client_or_default returns the client registered under the given
\* name when there is one; otherwise the default client when one is
\* configured; otherwise it raises
C22_NamedThenDefaultThenError ==
    t_tool = "get_client_or_default" =>
        t_out = IF /\ t_in.server_name # None
                   /\ t_in.server_name \in DOMAIN t_in.clients
                THEN ToolReturned(t_in.clients[t_in.server_name])
                ELSE IF t_in.default_client.has
                     THEN ToolReturned(t_in.default_client.v)
                     ELSE ToolRaised("ValueError")

(* Claims about get_stage *)

\* the task-summary calls among the client calls of a returned get_stage
C23_SummaryCalls ==
    { k \in DOMAIN t_out.value.calls :
        t_out.value.calls[k].op = "get_stage_task_summary" }

\* the server includes the metric distributions in the record of attempt id
C23_Included(id) ==
    /\ t_in.with_summaries
    /\ \E i \in DOMAIN t_in.attempts :
          /\ t_in.attempts[i].attempt_id = id
          /\ t_in.attempts[i].distributions

\* C23: without an attempt id get_stage lists the attempts and returns the
\* one with the highest attempt_id, and never returns when there is none;
\* with an attempt id its first call fetches that attempt and it returns
\* that attempt; it raises the not-found error only when no attempt is
\* listed; the task summary is fetched once, for the returned attempt's id,
\* when summaries are asked for and the record lacks the distributions, and
\* not at all otherwise
C23_LatestAttemptAndSummary ==
    /\ (t_tool = "get_stage" /\ t_out.kind = "returned") =>
          LET stage == t_out.value.stage
              calls == t_out.value.calls
          IN  /\ \E i \in DOMAIN t_in.attempts :
                    t_in.attempts[i].attempt_id = stage.attempt_id
              /\ IF t_in.attempt_id.has
                 THEN /\ calls[1] = [op |-> "get_stage_attempt",
                                     attempt_id |-> t_in.attempt_id]
                      /\ stage.attempt_id = t_in.attempt_id.v
                 ELSE /\ calls[1] = [op |-> "list_stage_attempts",
                                     attempt_id |-> Absent]
                      /\ \A i \in DOMAIN t_in.attempts :
                            t_in.attempts[i].attempt_id <= stage.attempt_id
              /\ C23_SummaryCalls =
                    IF t_in.with_summaries /\ ~C23_Included(stage.attempt_id)
                    THEN {2} ELSE {}
              /\ \A k \in C23_SummaryCalls :
                    calls[k].attempt_id = Present(stage.attempt_id)
              /\ Len(calls) = 1 + Cardinality(C23_SummaryCalls)
    /\ (t_tool = "get_stage" /\ ~t_in.attempt_id.has /\ t_in.attempts = <<>>) =>
          t_out.kind = "raised"
    /\ (t_tool = "get_stage" /\ t_out = ToolRaised("ValueError")) =>
          (~t_in.attempt_id.has /\ t_in.attempts = <<>>)

\* C23 witness: of two attempts listed with the higher id first, get_stage
\* returned the higher one and fetched its task summary
C23_Witness ==
    /\ t_tool = "get_stage"
    /\ t_out.kind = "returned"
    /\ ~t_in.attempt_id.has
    /\ Len(t_in.attempts) = 2
    /\ t_in.attempts[1].attempt_id > t_in.attempts[2].attempt_id
    /\ t_out.value.stage.attempt_id = t_in.attempts[1].attempt_id
    /\ C23_SummaryCalls = {2}

(* Claims about the timestamps *)

\* a == b of two datetimes: a naive and an aware one are never equal
C24_Equal(a, b) == a.aware = b.aware /\ a.wall_ms = b.wall_ms

\* a - b of two datetimes: a naive and an aware one cannot be subtracted
C24_Difference(a, b) ==
    IF a.aware = b.aware THEN ToolReturned(a.wall_ms - b.wall_ms)
                         ELSE ToolRaised("TypeError")

\* C24: the string form ending in GMT and the number of milliseconds of the
\* same instant parse to values that are equal and whose difference is zero
C24_SameInstant ==
    t_tool = "parse_datetime" =>
        /\ C24_Equal(t_out.value.start_time, t_out.value.end_time)
        /\ C24_Difference(t_out.value.start_time, t_out.value.end_time)
              = ToolReturned(0)

(* Claims about compare_job_environments *)

\* the keys of a property list
C25_Keys(props) == {props[i][1] : i \in DOMAIN props}

\* the value a property list gives a key: the last one given
C25_Value(props, k) ==
    props[CHOOSE i \in DOMAIN props :
            props[i][1] = k /\ \A j \in DOMAIN props : props[j][1] = k => j <= i][2]

\* compare_job_environments has returned
C25_Compared == t_tool = "compare_job_environments" /\ t_out.kind = "returned"

\* C25, as stated: the system properties are reported in the four
\* categories common, different, only_in_app1, only_in_app2, and every
\* system-property key of either application is in one of them
C25_SystemKeysInFourCategories ==
    C25_Compared =>
        LET reported == t_out.value.system_properties
        IN  /\ DOMAIN reported =
                  {"common", "different", "only_in_app1", "only_in_app2"}
            /\ \A k \in C25_Keys(t_in.env1.system_properties)
                          \cup C25_Keys(t_in.env2.system_properties) :
                  \E c \in DOMAIN reported : k \in DOMAIN reported[c]

\* C25, amended: the system properties are reported in the single category
\* key_differences, which holds exactly those of the six keys java.version,
\* java.runtime.version, os.name, os.version, user.timezone, file.encoding
\* whose values differ between the applications (an application lacking the
\* key differs from one having it), each with both values, NOT_SET for a
\* lacking one
C25_SystemKeyDifferencesOnly ==
    C25_Compared =>
        LET reported == t_out.value.system_properties
            s1 == t_in.env1.system_properties
            s2 == t_in.env2.system_properties
            Shown(s, k) == IF k \in C25_Keys(s) THEN C25_Value(s, k) ELSE "NOT_SET"
        IN  /\ DOMAIN reported = {"key_differences"}
            /\ \A k \in {"java.version", "java.runtime.version", "os.name",
                         "os.version", "user.timezone", "file.encoding",
                         "user.dir"} :
                  k \in DOMAIN reported.key_differences
                     <=> /\ k # "user.dir"
                         /\ Shown(s1, k) # Shown(s2, k)
            /\ \A k \in DOMAIN reported.key_differences :
                  reported.key_differences[k] =
                      [app1 |-> Shown(s1, k), app2 |-> Shown(s2, k)]

\* C25 witness: the applications differ in os.name, which is reported, and
\* in user.dir, which is not
C25_Witness ==
    /\ C25_Compared
    /\ t_in.env1.system_properties = << <<"os.name", "Linux">> >>
    /\ t_in.env2.system_properties = << <<"user.dir", "Linux">> >>
    /\ DOMAIN t_out.value.system_properties.key_differences = {"os.name"}

\* C26: the four categories of the Spark properties partition the keys of
\* the two lists: common holds the keys both have with equal values,
\* different those both have with unequal values, only_in_app1 and
\* only_in_app2 those only one has; comparing the applications the other
\* way round exchanges only_in_app1 and only_in_app2 and keeps the keys of
\* common and different
C26_SparkCategoriesPartition ==
    C25_Compared =>
        LET reported == t_out.value.spark_properties
            p1 == t_in.env1.spark_properties
            p2 == t_in.env2.spark_properties
            swapped == SparkComparison(PropsToDict(p2), PropsToDict(p1))
            Categories == {"common", "different", "only_in_app1", "only_in_app2"}
        IN  /\ DOMAIN reported = Categories
            /\ \A k \in C25_Keys(p1) \cup C25_Keys(p2) :
                  Cardinality({c \in Categories : k \in DOMAIN reported[c]}) = 1
            /\ \A c \in Categories :
                  DOMAIN reported[c] \subseteq C25_Keys(p1) \cup C25_Keys(p2)
            /\ \A k \in C25_Keys(p1) \cup C25_Keys(p2) :
                  /\ k \in DOMAIN reported.common
                        <=> /\ k \in C25_Keys(p1) \cap C25_Keys(p2)
                            /\ C25_Value(p1, k) = C25_Value(p2, k)
                  /\ k \in DOMAIN reported.different
                        <=> /\ k \in C25_Keys(p1) \cap C25_Keys(p2)
                            /\ C25_Value(p1, k) # C25_Value(p2, k)
                  /\ k \in DOMAIN reported.only_in_app1 <=> k \notin C25_Keys(p2)
                  /\ k \in DOMAIN reported.only_in_app2 <=> k \notin C25_Keys(p1)
            /\ DOMAIN swapped.only_in_app1 = DOMAIN reported.only_in_app2
            /\ DOMAIN swapped.only_in_app2 = DOMAIN reported.only_in_app1
            /\ DOMAIN swapped.common = DOMAIN reported.common
            /\ DOMAIN swapped.different = DOMAIN reported.different

\* C26 witness: a comparison with a key in common, whose value one list
\* gives twice, and a key only the second application has
C26_Witness ==
    /\ C25_Compared
    /\ t_in.env1.spark_properties = << <<"spark.app.name", "1g">>,
                                       <<"spark.app.name", "2g">> >>
    /\ t_in.env2.spark_properties = << <<"spark.app.name", "2g">>,
                                       <<"spark.executor.memory", "1g">> >>
    /\ DOMAIN t_out.value.spark_properties.common = {"spark.app.name"}
    /\ DOMAIN t_out.value.spark_properties.only_in_app2 = {"spark.executor.memory"}

(* Claims about the fallback request *)

\* C27: a fallback request goes to a URL other than that of the first
\* request
C27_FallbackUrlDiffers ==
    Len(httpLog) = 2 => httpLog[2].url # httpLog[1].url

\* the endpoints that carry the caller's attempt id directly behind the
\* application id, each as the part up to the application id and the part
\* from the attempt id on: get_application_attempt with attempt 2, and
\* get_sql_list with attempt 2 and with attempt 22
C28_AttemptEndpoints ==
    { <<<<"applications", "/", "x", "/">>, <<"2">>>>,
      <<<<"applications", "/", "x", "/">>, <<"2", "/", "x">>>>,
      <<<<"applications", "/", "x", "/">>, <<"2", "2", "/", "x">>>> }

\* C28: when the endpoint of a _get carries the attempt id behind the
\* application id, no request of that _get goes to the endpoint with the
\* segment "1/" put between the application id and the attempt id
C28_NoSecondAttemptSegment ==
    \A e \in C28_AttemptEndpoints :
        (Len(httpLog) >= 1 /\ httpLog[1].url = UrlJoin(client.base_url, e[1] \o e[2]))
            => \A k \in DOMAIN httpLog :
                  httpLog[k].url #
                      UrlJoin(client.base_url, e[1] \o <<"1", "/">> \o e[2])

(* Claims about running stages and negative counts *)

\* C29: no entry of the timeline of get_resource_usage_timeline has a
\* negative active_executors
C29_ActiveExecutorsNeverNegative ==
    (t_tool = "get_resource_usage_timeline" /\ t_out.kind = "returned") =>
        \A k \in DOMAIN t_out.value.timeline :
            t_out.value.timeline[k].active_executors >= 0

\* C30: list_slowest_stages with include_running = false returns no stage
\* whose status is ACTIVE
C30_NoActiveStageReturned ==
    (/\ t_tool = "list_slowest_stages"
     /\ t_out.kind = "returned"
     /\ ~t_in.include_running) =>
        \A k \in DOMAIN t_out.value : t_out.value[k].status # "ACTIVE"

====
